---- MODULE Spec2Model ----
(***************************************************************************)
(* Model of beans_logging: the RotationChecker (rotation.py), the file     *)
(* sink that consults it before every append, and the LoggerLoader sink    *)
(* registry (_base.py).                                                    *)
(*                                                                         *)
(* Time is counted in whole hours.  A timestamp is the number of hours     *)
(* since the epoch of the model; a naive datetime is a number of hours of  *)
(* local wall-clock time.  The two differ by the UTC offset of the local   *)
(* zone, which changes at a daylight-saving transition.                    *)
(***************************************************************************)
EXTENDS Integers, Sequences, FiniteSets, TLC

(***************************************************************************)
(* Bounds of the model.                                                    *)
(***************************************************************************)
MaxTime == 60          \* no record is emitted after this hour
MaxMsgLen == 2         \* characters of a formatted message
MaxSize == 3           \* largest configured rotate_size

(***************************************************************************)
(* datetime arithmetic                                                     *)
(***************************************************************************)
\* datetime.timedelta(days=1), in hours
DayLen == 24

\* The local zones the process may run in: a fixed UTC offset, or a zone
\* whose clocks are set forward one hour at timestamp DstStart.
Zones == {"fixed", "dst"}

DstStart == DayLen + 2

\* utcoffset of the local zone at a timestamp
UtcOffset(z, ts) == IF z = "dst" /\ ts >= DstStart THEN 1 ELSE 0

\* datetime.datetime.now(): the naive local wall-clock time at timestamp ts
LocalNow(z, ts) == ts + UtcOffset(z, ts)

\* naive_datetime.timestamp(): local wall-clock time to timestamp (a wall
\* time inside the skipped hour is read with the offset before the change)
Timestamp(z, w) == IF z = "dst" /\ w >= DstStart + 1 THEN w - 1 ELSE w

\* naive_datetime.replace(hour=..., minute=..., second=...): same date, time T
Replace(w, T) == (w \div DayLen) * DayLen + T

\* datetime.timedelta(seconds=s).days for s >= 0
TimedeltaDays(s) == s \div DayLen

(***************************************************************************)
(* Messages and their encoding                                             *)
(***************************************************************************)
\* Characters of a message: an ASCII letter and a non-ASCII letter.
Alphabet == {"a", "é"}

\* Bytes of one character in the file's encoding (utf8)
EncodedLen(c) == IF c = "a" THEN 1 ELSE 2

Messages == UNION {[1..n -> Alphabet] : n \in 1..MaxMsgLen}

\* Bytes the text file grows by when message m is written to it
RECURSIVE Encoded(_)
Encoded(m) == IF m = <<>> THEN 0 ELSE EncodedLen(Head(m)) + Encoded(Tail(m))

(***************************************************************************)
(* State                                                                   *)
(***************************************************************************)
VARIABLES
    zone,          \* local time zone of the process
    now,           \* current timestamp
    phase,         \* "new" before RotationChecker.__init__, then "ready"
    rotate_time,   \* config.file.rotate_time the checker was built with
    size_limit,    \* RotationChecker._size_limit
    dtime_limit,   \* RotationChecker._dtime_limit (naive local datetime)
    fsize,         \* bytes in the active log file
    frecs,         \* records in the active log file
    arch,          \* the file archived last: [size, recs], or NoFile
    last,          \* the last should_rotate call and write, or NoCall
    backup_count,  \* config.file.backup_count the sink was added with
    backups        \* the archived files on disk, oldest first

rotVars == <<zone, now, phase, rotate_time, size_limit, dtime_limit, fsize, frecs, arch, last,
             backup_count, backups>>

VARIABLES
    prod,          \* producer threads: [pc, rec, idx] inside logger.log()
    nrec,          \* records emitted so far
    queue,         \* per file sink: the queue of its enqueue=True handler
    wk,            \* per file sink: its writer thread [pc, rec, pos, e, rotate]
    chk,           \* per RotationChecker instance: its _dtime_limit
    file,          \* per file sink: the records in its active file
    archive,       \* per file sink: the records in its archived files
    swaps,         \* per file sink: file swaps done
    serial         \* per file sink: the policy applied record by record, in
                   \* queue order: [limit, fsize, rot, sent]

concVars == <<prod, nrec, queue, wk, chk, file, archive, swaps, serial>>

VARIABLES
    handlers,        \* the logger's handlers: id -> [owner, name, level, filter]
    handlers_count,  \* the id the logger gives the next handler
    handlers_map,    \* per LoggerLoader: its handlers_map, name -> id
    call             \* the last call on a loader: [seq, op, loader, arg, htype, raised]

regVars == <<handlers, handlers_count, handlers_map, call>>

VARIABLES
    config,          \* per LoggerLoader: its config (LoggerConfigPM)
    loggers,         \* the loggers of the standard logging module:
                     \* name -> [exists, handlers, propagate]
    emitted          \* the last record emitted and the sinks that wrote it

pipeVars == <<config, loggers, emitted>>

VARIABLES
    threads          \* the threads that call one LoggerLoader at the same time:
                     \* thread -> [pc, handler_name, _handler_id, raised]

raceVars == <<threads>>

VARIABLES
    file_config,     \* the paths in the config of loader "main": app_name,
                     \* logs_dir and log_path, err_path of the two handler groups
    sink_paths       \* the path each file sink of the last load() was added with

pathVars == <<file_config, sink_paths>>

VARIABLES
    heap,            \* the dictionary objects: address -> (key -> value), a value
                     \* being a scalar or the address of a dictionary
    dict1_at,        \* the address of dict1, deep_merge's first argument
    dict2_at,        \* the address of dict2, its second argument
    merged_at        \* the address of the dictionary it returned, 0 before

mergeVars == <<heap, dict1_at, dict2_at, merged_at>>

VARIABLES
    config_file_path, \* per LoggerLoader: its config_file_path
    environ,          \* the value of BEANS_LOGGING_CONFIG_PATH in os.environ
    config_file,      \* what the file at config_file_path holds
    last_args         \* the arguments of the last LoggerLoader(...) call, or the
                      \* path last assigned to config_file_path

newVars == <<config_file_path, environ, config_file, last_args>>

VARIABLES
    http              \* the request HttpAccessLogMiddleware.dispatch is handling:
                      \* [pc, use_debug_log, status_code, records], records being
                      \* the records dispatch has logged for it, with their sinks

httpVars == <<http>>

vars == <<rotVars, concVars, regVars, pipeVars, raceVars, pathVars, mergeVars, newVars, httpVars>>

\* The variables each specification leaves alone
notRot == <<concVars, regVars, pipeVars, raceVars, pathVars, mergeVars, newVars, httpVars>>
notConc == <<phase, rotate_time, size_limit, dtime_limit, fsize, frecs, arch, last,
             backup_count, backups, regVars, pipeVars, raceVars, pathVars, mergeVars, newVars,
             httpVars>>
notReg == <<rotVars, concVars, pipeVars, raceVars, pathVars, mergeVars, newVars, httpVars>>
notPipe == <<rotVars, concVars, raceVars, mergeVars, newVars, httpVars>>
notRace == <<rotVars, concVars, pipeVars, pathVars, mergeVars, newVars, httpVars>>
notMerge == <<rotVars, concVars, regVars, pipeVars, raceVars, pathVars, newVars, httpVars>>

NoFile == [size |-> 0, recs |-> 0]

NoCall == [called |-> FALSE, t |-> 0, len |-> 0, nbytes |-> 0, pos |-> 0,
           limit_before |-> 0, rotate |-> FALSE, by |-> "none", deleted |-> 0]

\* Configurations and construction times the rotation specification draws
RotateTimes == {0, 12}
RotateSizes == 1..MaxSize
StartTimes == {0, 11, 12, 13}

\* Every time of day, for the specification of the constructor alone
AllTimes == 0..(DayLen - 1)

(***************************************************************************)
(* Producer threads, the file sinks' queues and writer threads             *)
(***************************************************************************)
MaxRecords == 2        \* records the producers emit in one behaviour

Producers == {1, 2}

\* The file sinks load() adds, in the order the logger iterates them
Sinks == {"FILE", "FILE_ERR"}
SinkOrder == <<"FILE", "FILE_ERR">>

NoRec == [id |-> 0, p |-> 0, t |-> 0, m |-> <<>>, err |-> FALSE]

IdleProducer == [pc |-> "idle", rec |-> NoRec, idx |-> 0]
IdleWriter == [pc |-> "idle", rec |-> NoRec, pos |-> 0, e |-> 0, rotate |-> FALSE]

\* Faulty variant of CheckerOf: one RotationChecker instance shared by the sinks
SharedChecker(s) == "FILE"

\* The RotationChecker instance of a sink: add_custom_handler constructs a
\* new one in every call
CheckerOf(s) == s

\* level="WARNING" of FILE_ERR: the sink takes the record or not
Accepts(s, rec) == s = "FILE" \/ rec.err

\* Bytes of a file holding the records of sequence f
RECURSIVE FileBytes(_)
FileBytes(f) == IF f = <<>> THEN 0 ELSE Encoded(Head(f).m) + FileBytes(Tail(f))

\* The state of the concurrent part in the specifications that do not use it
ConcIdle ==
    /\ prod = [p \in Producers |-> IdleProducer]
    /\ nrec = 0
    /\ queue = [s \in Sinks |-> <<>>]
    /\ wk = [s \in Sinks |-> IdleWriter]
    /\ chk = [s \in Sinks |-> 0]
    /\ file = [s \in Sinks |-> <<>>]
    /\ archive = [s \in Sinks |-> <<>>]
    /\ swaps = [s \in Sinks |-> 0]
    /\ serial = [s \in Sinks |-> [limit |-> 0, fsize |-> 0, rot |-> 0, sent |-> {}]]

(***************************************************************************)
(* The sink registry: the logger's handlers and LoggerLoader.handlers_map  *)
(***************************************************************************)
MaxIds == 3            \* handler ids the logger hands out in one behaviour

\* The LoggerLoader instances that share the process-wide logger
Loaders == {"main", "other"}

\* str.strip() on the strings of the model
Strip(x) ==
    CASE x = " file " -> "file"
      [] x = " id " -> "id"
      [] OTHER -> x

\* str.upper() on the strings of the model
Upper(x) ==
    CASE x = "file" -> "FILE"
      [] x = "default" -> "DEFAULT"
      [] x = "name" -> "NAME"
      [] x = "id" -> "ID"
      [] x = "type" -> "TYPE"
      [] OTHER -> x

\* handler_name.strip().upper(), handler_type.strip().upper()
Normalise(x) == Upper(Strip(x))

\* handler_name.startswith("STREAM"), handler_name.startswith("FILE")
StartsWithStream(n) == n \in {"STREAM.STD"}
StartsWithFile(n) == n \in {"FILE", "FILE_ERR", "FILE.JSON", "FILE.JSON_ERR",
                           "FILE.HTTP", "FILE.HTTP_ERR"}

\* Values of the `handler` argument of remove_handler: None, a string that
\* is a name (possibly empty), the decimal string of an id, an int
NoneArg == [kind |-> "none", name |-> "", id |-> 0]
StrArg(n) == [kind |-> "str", name |-> n, id |-> 0]
DigitsArg(i) == [kind |-> "digits", name |-> "", id |-> i]
IntArg(i) == [kind |-> "int", name |-> "", id |-> i]

\* validate_call on remove_handler: handler is Union[str, None]
ValidHandlerArg(h) == h.kind # "int"

\* `if handler:`
Truthy(h) == h.kind = "digits" \/ (h.kind = "str" /\ h.name # "") \/ (h.kind = "int" /\ h.id # 0)

\* `handler in self.handlers_map`
InMapKeys(h, m) == h.kind = "str" /\ h.name \in DOMAIN m

\* `handler in self.handlers_map.values()`: the values are ints
InMapValues(h, m) == h.kind = "int" /\ \E n \in DOMAIN m : m[n] = h.id

\* dict without key k, dict with k set to v
MapPop(m, k) == [n \in DOMAIN m \ {k} |-> m[n]]
MapSet(m, k, v) == [n \in DOMAIN m \cup {k} |-> IF n = k THEN v ELSE m[n]]

\* {"default": 0}
DefaultMap == [n \in {"default"} |-> 0]

\* The handler the logger starts with
DefaultHandlers ==
    [i \in {0} |-> [owner |-> "loguru", name |-> "default", level |-> "DEBUG",
                    filter |-> "none"]]

NoRegCall == [seq |-> 0, op |-> "none", loader |-> "", arg |-> NoneArg, htype |-> "",
              raised |-> "none", ret |-> "None"]

\* The state of the registry in the specifications that do not use it
RegIdle ==
    /\ handlers = DefaultHandlers
    /\ handlers_count = 1
    /\ handlers_map = [l \in Loaders |-> DefaultMap]
    /\ call = NoRegCall

(***************************************************************************)
(* Levels, filters, the configuration and the standard logging module      *)
(***************************************************************************)
\* LogLevelEnum, and the number loguru gives each level
Levels == {"TRACE", "DEBUG", "INFO", "SUCCESS", "WARNING", "ERROR", "CRITICAL"}

LevelNo(lv) ==
    CASE lv = "TRACE" -> 5
      [] lv = "DEBUG" -> 10
      [] lv = "INFO" -> 20
      [] lv = "SUCCESS" -> 25
      [] lv = "WARNING" -> 30
      [] lv = "ERROR" -> 40
      [] lv = "CRITICAL" -> 50

\* The filters of the package; "none": a handler added without a filter
Filters == {"use_all_filter", "use_std_filter", "use_file_filter", "use_file_err_filter",
            "use_file_json_filter", "use_file_json_err_filter"}

\* Module names of foreign loggers, and the root logger
Modules == {"a", "a.b", "c"}
LoggerNames == Modules \cup {"root"}

\* LoggerConfigPM(): the fields of the configuration that the model follows
DefaultConfig ==
    [level |-> "INFO",
     stream |-> [std_handler |-> [enabled |-> TRUE]],
     file |-> [log_handlers |-> [enabled |-> FALSE],
               json_handlers |-> [enabled |-> FALSE]],
     intercept |-> [auto_load |-> [enabled |-> TRUE, only_base |-> FALSE,
                                   ignore_modules |-> {}],
                    include_modules |-> {},
                    mute_modules |-> {}]]

\* A logger of the logging module that nobody has asked for yet
NoLogger == [exists |-> FALSE, handlers |-> {}, propagate |-> TRUE]

\* logging.root before basicConfig
FreshLoggers == [m \in LoggerNames |-> IF m = "root" THEN [NoLogger EXCEPT !.exists = TRUE]
                                                      ELSE NoLogger]

\* The value of a record key that is not in the record
NoKey == "<no key>"

NoEmit == [seq |-> 0, via |-> "none", module |-> "", level |-> "", extra |-> <<>>,
           intercepted |-> 0, level_short |-> NoKey, sinks |-> {}]

\* The state of the pipeline in the specifications that do not use it
PipeIdle ==
    /\ config = [l \in Loaders |-> DefaultConfig]
    /\ loggers = FreshLoggers
    /\ emitted = NoEmit

\* The threads of the specification with concurrent calls on one loader:
\* two call add_custom_handler, one calls remove_handler()
Adders == {"t1", "t2"}
Remover == "t3"
Threads == Adders \cup {Remover}

IdleThread == [pc |-> "idle", handler_name |-> "", _handler_id |-> 0, raised |-> "none"]

\* No thread has called the loader
RaceIdle == threads = [t \in Threads |-> IdleThread]

(***************************************************************************)
(* Paths.  A path is a directory and a file name; a file name is a         *)
(* sequence of pieces, "{app_name}" standing for the placeholder.  The     *)
(* directory "" is a bare relative name, "." the prefix "./", the others   *)
(* are absolute.  The working directory is /srv.                           *)
(***************************************************************************)
AppNames == {"app", "web"}
LogsDirs == {"logs", "/srv/logs"}
PathDirs == {"", ".", "/srv/logs"}
FileNames == {<<"{app_name}", ".std.all.log">>, <<"{app_name}", ".std.err.log">>,
              <<"app", ".std.all.log">>}
Paths == [dir : PathDirs, name : FileNames]

\* LoggerConfigPM(): the paths of the four file sinks
DefaultFileConfig ==
    [app_name |-> "app",
     logs_dir |-> "/srv/logs",
     log_handlers |->
        [log_path |-> [dir |-> "", name |-> <<"{app_name}", ".std.all.log">>],
         err_path |-> [dir |-> "", name |-> <<"{app_name}", ".std.err.log">>]],
     json_handlers |->
        [log_path |-> [dir |-> "", name |-> <<"{app_name}", ".json.all.log">>],
         err_path |-> [dir |-> "", name |-> <<"{app_name}", ".json.err.log">>]]]

\* LogHandlersPM._check_log_path, JsonHandlersPM._check_log_path: the two
\* strings are compared as they were given
CheckLogPath(g) == g.log_path # g.err_path

\* path.format(app_name=app_name) when "{app_name}" is in the path
Format(path, app_name) ==
    [path EXCEPT !.name = [i \in DOMAIN path.name |->
                              IF path.name[i] = "{app_name}" THEN app_name
                              ELSE path.name[i]]]

\* os.path.isabs
IsAbs(dir) == dir \notin {"", ".", "logs"}

\* os.path.join(os.getcwd(), logs_dir) when logs_dir is not absolute
AbsLogsDir(logs_dir) == IF IsAbs(logs_dir) THEN logs_dir ELSE "/srv/logs"

\* _check_config(): logs_dir is made absolute and "{app_name}" is replaced
\* in the four paths, in the configuration itself
CheckConfig(fc) ==
    [app_name |-> fc.app_name,
     logs_dir |-> AbsLogsDir(fc.logs_dir),
     log_handlers |-> [log_path |-> Format(fc.log_handlers.log_path, fc.app_name),
                       err_path |-> Format(fc.log_handlers.err_path, fc.app_name)],
     json_handlers |-> [log_path |-> Format(fc.json_handlers.log_path, fc.app_name),
                        err_path |-> Format(fc.json_handlers.err_path, fc.app_name)]]

\* add_custom_handler: os.path.abspath(os.path.join(logs_dir, sink)) for a
\* sink that is not absolute, then "{app_name}" is replaced
LogPath(fc, sink) ==
    Format(IF IsAbs(sink.dir) THEN sink ELSE [sink EXCEPT !.dir = fc.logs_dir], fc.app_name)

\* The sink each file handler of load() is added with
SinkOf(fc, name) ==
    CASE name = "FILE" -> fc.log_handlers.log_path
      [] name = "FILE_ERR" -> fc.log_handlers.err_path
      [] name = "FILE.JSON" -> fc.json_handlers.log_path
      [] name = "FILE.JSON_ERR" -> fc.json_handlers.err_path

\* The paths in the specifications that do not follow them
PathIdle ==
    /\ file_config = DefaultFileConfig
    /\ sink_paths = <<>>

\* No dictionary object exists in the specifications without deep_merge
MergeIdle ==
    /\ heap = <<>>
    /\ dict1_at = 0
    /\ dict2_at = 0
    /\ merged_at = 0

(***************************************************************************)
(* The path of the configuration file: whether the string has white space  *)
(* around it, its directory ("" for a bare relative name), the file name   *)
(* and the extension it ends with.  The working directory is /srv.         *)
(***************************************************************************)
Exts == {".yml", ".YAML", ".json", ".toml", ".txt"}

\* str.lower() of an extension
Lower(ext) == IF ext = ".YAML" THEN ".yaml" ELSE ext

EmptyStr == [pad |-> FALSE, dir |-> "", name |-> "", ext |-> ""]

\* LoggerLoader._CONFIG_FILE_PATH: os.path.join(os.getcwd(), "configs", "logger.yml")
CONFIG_FILE_PATH == [pad |-> FALSE, dir |-> "/srv/configs", name |-> "logger", ext |-> ".yml"]

\* The strings assigned to config_file_path: "", "  ", and paths with and
\* without white space around them, relative and absolute
PathStrings ==
    [pad : BOOLEAN, dir : {""}, name : {""}, ext : {""}]
    \cup [pad : BOOLEAN, dir : {"", "/etc"}, name : {"logger"}, ext : Exts]

\* What LoggerLoader() is called with, before any call
NoArgs == [config |-> "None", auto_config_file |-> TRUE, auto_load |-> FALSE,
           path |-> CONFIG_FILE_PATH]

\* The state of the specifications that construct no loader
NewIdle ==
    /\ config_file_path = [l \in Loaders |-> CONFIG_FILE_PATH]
    /\ environ = EmptyStr
    /\ config_file = "missing"
    /\ last_args = NoArgs

\* dispatch is handling no request
IdleRequest == [pc |-> "idle", use_debug_log |-> FALSE, status_code |-> 0, records |-> <<>>]

\* The state of the specifications without the middleware
HttpIdle == http = IdleRequest

(***************************************************************************)
(* Dictionaries: model_dump, deep_merge and validation                     *)
(***************************************************************************)
\* A value of a dictionary: a scalar (written as a string), a list of module
\* names, or a dictionary (a function from keys to values)
Val(v) == [t |-> "val", v |-> v, l |-> {}, d |-> [k \in {} |-> 0]]
List(S) == [t |-> "list", v |-> "", l |-> S, d |-> [k \in {} |-> 0]]
Dict(f) == [t |-> "dict", v |-> "", l |-> {}, d |-> f]

BoolStr(b) == IF b THEN "true" ELSE "false"

\* self.config.model_dump()
ModelDump(c) ==
    [level |-> Val(c.level),
     stream |-> Dict([std_handler |->
                        Dict([enabled |-> Val(BoolStr(c.stream.std_handler.enabled))])]),
     file |-> Dict([log_handlers |->
                      Dict([enabled |-> Val(BoolStr(c.file.log_handlers.enabled))]),
                    json_handlers |->
                      Dict([enabled |-> Val(BoolStr(c.file.json_handlers.enabled))])]),
     intercept |-> Dict([auto_load |->
                           Dict([enabled |-> Val(BoolStr(c.intercept.auto_load.enabled)),
                                 only_base |-> Val(BoolStr(c.intercept.auto_load.only_base)),
                                 ignore_modules |->
                                     List(c.intercept.auto_load.ignore_modules)]),
                         include_modules |-> List(c.intercept.include_modules),
                         mute_modules |-> List(c.intercept.mute_modules)])]

\* deep_merge(dict1, dict2)
RECURSIVE deep_merge(_, _)
deep_merge(dict1, dict2) ==
    [key \in DOMAIN dict1 \cup DOMAIN dict2 |->
        IF key \notin DOMAIN dict2
        THEN dict1[key]
        ELSE IF key \in DOMAIN dict1 /\ dict1[key].t = "dict" /\ dict2[key].t = "dict"
        THEN Dict(deep_merge(dict1[key].d, dict2[key].d))
        ELSE dict2[key]]

(***************************************************************************)
(* deep_merge on dictionary objects.  Python dictionaries are objects that *)
(* can be shared and changed in place: heap holds them by address.         *)
(***************************************************************************)
Keys == {"x", "y"}
KeyOrder == <<"x", "y">>

\* A value of a dictionary object: a scalar, or the address of a dictionary
Scalar(v) == [t |-> "val", v |-> v, a |-> 0]
Ref(a) == [t |-> "ref", v |-> "", a |-> a]

\* The keys of a dictionary object, in the order of iteration
Items(node) == SelectSeq(KeyOrder, LAMBDA k : k \in DOMAIN node)

\* obj[key] = val, in place
SetItem(h, at, key, val) == [h EXCEPT ![at] = MapSet(h[at], key, val)]

\* Faulty variant of deepcopy: the object itself is returned
deepcopy_alias(h, at) == [heap |-> h, at |-> at]

\* copy.deepcopy(obj) of the dictionary at an address: a new object for it
\* and for every dictionary in it
RECURSIVE deepcopy(_, _), CopyItems(_, _, _, _)
deepcopy(h, at) ==
    LET h1 == Append(h, <<>>)
    IN [heap |-> CopyItems(h1, at, Len(h1), Items(h[at])), at |-> Len(h1)]

CopyItems(h, src, dst, ks) ==
    IF ks = <<>>
    THEN h
    ELSE LET k == Head(ks)
             v == h[src][k]
         IN IF v.t = "ref"
            THEN LET c == deepcopy(h, v.a)
                 IN CopyItems(SetItem(c.heap, dst, k, Ref(c.at)), src, dst, Tail(ks))
            ELSE CopyItems(SetItem(h, dst, k, v), src, dst, Tail(ks))

\* deep_merge(dict1, dict2) as the code runs it on the objects: the heap
\* after the call and the address of the dictionary returned
RECURSIVE deep_merge_at(_, _, _), MergeItems(_, _, _, _)
deep_merge_at(h, a1, a2) ==
    LET _merged == deepcopy(h, a1)
    IN [heap |-> MergeItems(_merged.heap, _merged.at, a2, Items(h[a2])),
        at |-> _merged.at]

\* `for _key, _val in dict2.items(): ...`
MergeItems(h, m, a2, ks) ==
    IF ks = <<>>
    THEN h
    ELSE LET _key == Head(ks)
             _val == h[a2][_key]
         IN IF _key \in DOMAIN h[m] /\ h[m][_key].t = "ref" /\ _val.t = "ref"
            THEN LET r == deep_merge_at(h, h[m][_key].a, _val.a)
                 IN MergeItems(SetItem(r.heap, m, _key, Ref(r.at)), m, a2, Tail(ks))
            ELSE IF _val.t = "ref"
            THEN LET c == deepcopy(h, _val.a)
                 IN MergeItems(SetItem(c.heap, m, _key, Ref(c.at)), m, a2, Tail(ks))
            ELSE MergeItems(SetItem(h, m, _key, _val), m, a2, Tail(ks))

\* The dictionary at an address, as a value
RECURSIVE TreeOf(_, _)
TreeOf(h, at) ==
    [k \in DOMAIN h[at] |->
        IF h[at][k].t = "ref" THEN Dict(TreeOf(h, h[at][k].a)) ELSE Val(h[at][k].v)]

\* The addresses of a dictionary and of the dictionaries in it
RECURSIVE Objects(_, _)
Objects(h, at) ==
    {at} \cup UNION {Objects(h, h[at][k].a) : k \in {x \in DOMAIN h[at] : h[at][x].t = "ref"}}

\* The dictionaries deep_merge is called with: two objects at addresses 1
\* and 2 that may hold the objects at 3 and 4, also both the same one; no
\* dictionary holds one object under two keys
LeafNodes ==
    {<<>>} \cup [{"x"} -> {Scalar("1"), Scalar("2")}]
           \cup [Keys -> {Scalar("1"), Scalar("2")}]
TopNodes ==
    UNION {{f \in [K -> {Scalar("1"), Scalar("2"), Ref(3), Ref(4)}] :
               /\ "y" \in K => f["y"] \notin {Scalar("2"), Ref(3)}
               /\ K = Keys => f["x"] # f["y"] \/ f["x"].t = "val"} : K \in SUBSET Keys}

MergeInit ==
    /\ zone = "fixed"
    /\ now = 0
    /\ phase = "new"
    /\ rotate_time = 0
    /\ size_limit = 0
    /\ dtime_limit = 0
    /\ fsize = 0
    /\ frecs = 0
    /\ arch = NoFile
    /\ last = NoCall
    /\ backup_count = 0
    /\ backups = <<>>
    /\ ConcIdle
    /\ RegIdle
    /\ PipeIdle
    /\ RaceIdle
    /\ PathIdle
    /\ \E n1, n2 \in TopNodes, n3, n4 \in LeafNodes : heap = <<n1, n2, n3, n4>>
    /\ dict1_at = 1
    /\ dict2_at \in {1, 2}
    /\ merged_at = 0
    /\ NewIdle
    /\ HttpIdle

\* _merged = deep_merge(dict1, dict2)
Merge ==
    /\ merged_at = 0
    /\ LET r == deep_merge_at(heap, dict1_at, dict2_at)
       IN /\ heap' = r.heap
          /\ merged_at' = r.at
    /\ UNCHANGED <<dict1_at, dict2_at, notMerge>>

MergeNext == Merge

SpecMerge == MergeInit /\ [][MergeNext]_vars

\* Field types of the schema
IsBool(n) == n.t = "val" /\ n.v \in {"true", "false"}
IsLevel(n) == n.t = "val" /\ n.v \in Levels
IsModuleList(n) == n.t = "list"
IsEnabledModel(n) == n.t = "dict" /\ IsBool(n.d.enabled)

\* LoggerConfigPM(**d) validates
ValidConfig(d) ==
    /\ IsLevel(d.level)
    /\ d.stream.t = "dict"
    /\ IsEnabledModel(d.stream.d.std_handler)
    /\ d.file.t = "dict"
    /\ IsEnabledModel(d.file.d.log_handlers)
    /\ IsEnabledModel(d.file.d.json_handlers)
    /\ d.intercept.t = "dict"
    /\ d.intercept.d.auto_load.t = "dict"
    /\ IsBool(d.intercept.d.auto_load.d.enabled)
    /\ IsBool(d.intercept.d.auto_load.d.only_base)
    /\ IsModuleList(d.intercept.d.auto_load.d.ignore_modules)
    /\ IsModuleList(d.intercept.d.include_modules)
    /\ IsModuleList(d.intercept.d.mute_modules)

\* The LoggerConfigPM that LoggerConfigPM(**d) builds from a valid d
ParseConfig(d) ==
    [level |-> d.level.v,
     stream |-> [std_handler |-> [enabled |-> d.stream.d.std_handler.d.enabled.v = "true"]],
     file |-> [log_handlers |-> [enabled |-> d.file.d.log_handlers.d.enabled.v = "true"],
               json_handlers |-> [enabled |-> d.file.d.json_handlers.d.enabled.v = "true"]],
     intercept |-> [auto_load |->
                      [enabled |-> d.intercept.d.auto_load.d.enabled.v = "true",
                       only_base |-> d.intercept.d.auto_load.d.only_base.v = "true",
                       ignore_modules |-> d.intercept.d.auto_load.d.ignore_modules.l],
                    include_modules |-> d.intercept.d.include_modules.l,
                    mute_modules |-> d.intercept.d.mute_modules.l]]

(***************************************************************************)
(* RotationChecker                                                         *)
(***************************************************************************)
\* Faulty variant of InitialLimit: the start time is compared with > instead of >=
InitialLimitStrict(w, T) ==
    IF w > Replace(w, T) THEN Replace(w, T) + DayLen ELSE Replace(w, T)

\* __init__: the first cutover, for construction at wall-clock time w
InitialLimit(w, T) ==
    IF w >= Replace(w, T) THEN Replace(w, T) + DayLen ELSE Replace(w, T)

\* should_rotate, size condition: file.tell() + len(message) > _size_limit
SizeExceeded(pos, m, S) == pos + Len(m) > S

\* should_rotate: _elapsed_timestamp
Elapsed(z, t, limit) == t - Timestamp(z, limit)

\* should_rotate: the cutover after a time-triggered rotation
AdvancedLimit(limit, e) == limit + (TimedeltaDays(e) + 1) * DayLen

\* should_rotate(message, file): the result, the new _dtime_limit and the
\* condition that decided
ShouldRotate(z, S, limit, t, m, pos) ==
    IF SizeExceeded(pos, m, S)
    THEN [rotate |-> TRUE, limit |-> limit, by |-> "size"]
    ELSE IF Elapsed(z, t, limit) >= 0
         THEN [rotate |-> TRUE, limit |-> AdvancedLimit(limit, Elapsed(z, t, limit)),
               by |-> "time"]
         ELSE [rotate |-> FALSE, limit |-> limit, by |-> "none"]

(***************************************************************************)
(* Actions of the rotation specification                                   *)
(***************************************************************************)
RotInit ==
    /\ zone \in Zones
    /\ now \in StartTimes
    /\ phase = "new"
    /\ rotate_time = 0
    /\ size_limit = 0
    /\ dtime_limit = 0
    /\ fsize = 0
    /\ frecs = 0
    /\ arch = NoFile
    /\ last = NoCall
    /\ backup_count = 0
    /\ backups = <<>>
    /\ ConcIdle
    /\ RegIdle
    /\ PipeIdle
    /\ RaceIdle
    /\ PathIdle
    /\ MergeIdle
    /\ NewIdle
    /\ HttpIdle

\* A file sink is added: RotationChecker(rotate_size=S, rotate_time=T) and
\* retention=k
Construct(S, T, k) ==
    /\ phase = "new"
    /\ phase' = "ready"
    /\ rotate_time' = T
    /\ size_limit' = S
    /\ dtime_limit' = InitialLimit(LocalNow(zone, now), T)
    /\ backup_count' = k
    /\ UNCHANGED <<zone, now, fsize, frecs, arch, last, backups, notRot>>

\* Faulty variant of Retention: the k files archived first are kept
RetentionOldest(logs, k) == IF Len(logs) <= k THEN logs ELSE SubSeq(logs, 1, k)

\* retention=k: of the archived files, in the order of their last
\* modification, the k modified last are kept and the others deleted
Retention(logs, k) ==
    IF Len(logs) <= k THEN logs ELSE SubSeq(logs, Len(logs) - k + 1, Len(logs))

\* The file sink writes one record: d hours after the previous one a record
\* with message m is emitted; should_rotate is consulted, the file is
\* swapped when it returns true (the active file is archived and the
\* retention applied), and the message is appended.
Write(d, m) ==
    /\ phase = "ready"
    /\ now + d <= MaxTime
    /\ LET t == now + d
           r == ShouldRotate(zone, size_limit, dtime_limit, t, m, fsize)
       IN /\ now' = t
          /\ dtime_limit' = r.limit
          /\ IF r.rotate
             THEN /\ arch' = [size |-> fsize, recs |-> frecs]
                  /\ backups' = Retention(Append(backups, arch'), backup_count)
                  /\ fsize' = Encoded(m)
                  /\ frecs' = 1
             ELSE /\ arch' = arch
                  /\ backups' = backups
                  /\ fsize' = fsize + Encoded(m)
                  /\ frecs' = frecs + 1
          /\ last' = [called |-> TRUE, t |-> t, len |-> Len(m), nbytes |-> Encoded(m),
                      pos |-> fsize, limit_before |-> dtime_limit,
                      rotate |-> r.rotate, by |-> r.by,
                      deleted |-> Len(backups) + (IF r.rotate THEN 1 ELSE 0)
                                     - Len(backups')]
    /\ UNCHANGED <<zone, phase, rotate_time, size_limit, backup_count, notRot>>

\* Hours between two consecutive records
Gaps == {0, 1, 23, 24, 47}

RotNext ==
    \/ \E S \in RotateSizes, T \in RotateTimes : Construct(S, T, 1)
    \/ \E d \in Gaps, m \in Messages : Write(d, m)

Spec == RotInit /\ [][RotNext]_vars

(***************************************************************************)
(* The file sink with every backup_count up to MaxBackups                  *)
(***************************************************************************)
MaxBackups == 2        \* largest configured backup_count

RetInit ==
    /\ zone = "fixed"
    /\ now = 0
    /\ phase = "new"
    /\ rotate_time = 0
    /\ size_limit = 0
    /\ dtime_limit = 0
    /\ fsize = 0
    /\ frecs = 0
    /\ arch = NoFile
    /\ last = NoCall
    /\ backup_count = 0
    /\ backups = <<>>
    /\ ConcIdle
    /\ RegIdle
    /\ PipeIdle
    /\ RaceIdle
    /\ PathIdle
    /\ MergeIdle
    /\ NewIdle
    /\ HttpIdle

RetNext ==
    \/ \E k \in 1..MaxBackups : Construct(MaxSize - 1, DayLen \div 2, k)
    \/ \E d \in {0, 1, DayLen}, m \in Messages : Write(d, m)

SpecRet == RetInit /\ [][RetNext]_vars

(***************************************************************************)
(* The constructor alone, for every time of day and every start time       *)
(***************************************************************************)
CtorInit ==
    /\ zone \in Zones
    /\ now \in 0..MaxTime
    /\ phase = "new"
    /\ rotate_time = 0
    /\ size_limit = 0
    /\ dtime_limit = 0
    /\ fsize = 0
    /\ frecs = 0
    /\ arch = NoFile
    /\ last = NoCall
    /\ backup_count = 0
    /\ backups = <<>>
    /\ ConcIdle
    /\ RegIdle
    /\ PipeIdle
    /\ RaceIdle
    /\ PathIdle
    /\ MergeIdle
    /\ NewIdle
    /\ HttpIdle

CtorNext == \E S \in RotateSizes, T \in AllTimes : Construct(S, T, 1)

SpecCtor == CtorInit /\ [][CtorNext]_vars

(***************************************************************************)
(* Concurrent producers emitting to the file sinks                         *)
(***************************************************************************)
\* The formatted message of the records the producers emit
ConcMessages == {<<"a", "é">>}
\* The producers start in the hour before the first cutover
ConcStart == DayLen \div 2 - 1

ConcInit ==
    /\ zone \in Zones
    /\ now = ConcStart
    /\ phase = "ready"
    /\ rotate_time = DayLen \div 2
    /\ size_limit = MaxSize
    /\ dtime_limit = 0
    /\ fsize = 0
    /\ frecs = 0
    /\ arch = NoFile
    /\ last = NoCall
    /\ backup_count = 0
    /\ backups = <<>>
    /\ prod = [p \in Producers |-> IdleProducer]
    /\ nrec = 0
    /\ queue = [s \in Sinks |-> <<>>]
    /\ wk = [s \in Sinks |-> IdleWriter]
    /\ chk = [s \in Sinks |-> InitialLimit(LocalNow(zone, now), rotate_time)]
    /\ file = [s \in Sinks |-> <<>>]
    /\ archive = [s \in Sinks |-> <<>>]
    /\ swaps = [s \in Sinks |-> 0]
    /\ serial = [s \in Sinks |->
                   [limit |-> InitialLimit(LocalNow(zone, now), rotate_time),
                    fsize |-> 0, rot |-> 0, sent |-> {}]]
    /\ RegIdle
    /\ PipeIdle
    /\ RaceIdle
    /\ PathIdle
    /\ MergeIdle
    /\ NewIdle
    /\ HttpIdle

\* The clock advances
Tick(d) ==
    /\ now + d < DayLen
    /\ now' = now + d
    /\ UNCHANGED <<zone, notConc, concVars>>

\* logger.log() in thread p: the record is built and stamped with the time
Stamp(p, m, err) ==
    /\ prod[p].pc = "idle"
    /\ nrec < MaxRecords
    /\ nrec' = nrec + 1
    /\ prod' = [prod EXCEPT ![p] =
                  [pc |-> "emit", idx |-> 1,
                   rec |-> [id |-> nrec + 1, p |-> p, t |-> now, m |-> m, err |-> err]]]
    /\ UNCHANGED <<zone, now, notConc, queue, wk, chk, file, archive, swaps, serial>>

\* logger.log() in thread p: the next handler's emit puts the formatted
\* message on the handler's queue (enqueue=True)
Put(p) ==
    /\ prod[p].pc = "emit"
    /\ LET s == SinkOrder[prod[p].idx]
           rec == prod[p].rec
       IN /\ IF Accepts(s, rec)
             THEN /\ queue' = [queue EXCEPT ![s] = Append(@, rec)]
                  /\ serial' = [serial EXCEPT ![s].sent = @ \cup {rec.id}]
             ELSE UNCHANGED <<queue, serial>>
          /\ prod' = [prod EXCEPT ![p] =
                        IF prod[p].idx = Len(SinkOrder) THEN IdleProducer
                        ELSE [@ EXCEPT !.idx = @ + 1]]
    /\ UNCHANGED <<zone, now, notConc, nrec, wk, chk, file, archive, swaps>>

\* The writer thread of sink s takes the next message from its queue.  The
\* serial policy of the sink is applied to the same record at this point.
Take(s) ==
    /\ wk[s].pc = "idle"
    /\ queue[s] # <<>>
    /\ LET rec == Head(queue[s])
           r == ShouldRotate(zone, size_limit, serial[s].limit, rec.t, rec.m,
                             serial[s].fsize)
       IN /\ queue' = [queue EXCEPT ![s] = Tail(@)]
          /\ wk' = [wk EXCEPT ![s] = [IdleWriter EXCEPT !.pc = "check", !.rec = rec]]
          /\ serial' = [serial EXCEPT ![s] =
                [limit |-> r.limit,
                 fsize |-> IF r.rotate THEN Encoded(rec.m)
                           ELSE serial[s].fsize + Encoded(rec.m),
                 rot |-> IF r.rotate THEN serial[s].rot + 1 ELSE serial[s].rot,
                 sent |-> serial[s].sent]]
    /\ UNCHANGED <<zone, now, notConc, prod, nrec, chk, file, archive, swaps>>

\* should_rotate in the writer thread of s, lines 53-60: the size condition,
\* then the elapsed time against the checker's _dtime_limit
Check(s) ==
    /\ wk[s].pc = "check"
    /\ LET pos == FileBytes(file[s])
           e == Elapsed(zone, wk[s].rec.t, chk[CheckerOf(s)])
       IN wk' = [wk EXCEPT ![s] =
                   IF SizeExceeded(pos, wk[s].rec.m, size_limit)
                   THEN [@ EXCEPT !.pc = "swap", !.pos = pos, !.rotate = TRUE]
                   ELSE IF e >= 0
                        THEN [@ EXCEPT !.pc = "advance", !.pos = pos, !.e = e,
                                       !.rotate = TRUE]
                        ELSE [@ EXCEPT !.pc = "append", !.pos = pos]]
    /\ UNCHANGED <<zone, now, notConc, prod, nrec, queue, chk, file, archive, swaps, serial>>

\* should_rotate in the writer thread of s, lines 61-63: _dtime_limit += days
Advance(s) ==
    /\ wk[s].pc = "advance"
    /\ chk' = [chk EXCEPT ![CheckerOf(s)] = AdvancedLimit(@, wk[s].e)]
    /\ wk' = [wk EXCEPT ![s].pc = "swap"]
    /\ UNCHANGED <<zone, now, notConc, prod, nrec, queue, file, archive, swaps, serial>>

\* should_rotate returned True: the sink archives its file and opens a new one
Swap(s) ==
    /\ wk[s].pc = "swap"
    /\ archive' = [archive EXCEPT ![s] = @ \o file[s]]
    /\ file' = [file EXCEPT ![s] = <<>>]
    /\ swaps' = [swaps EXCEPT ![s] = @ + 1]
    /\ wk' = [wk EXCEPT ![s].pc = "append"]
    /\ UNCHANGED <<zone, now, notConc, prod, nrec, queue, chk, serial>>

\* The sink appends the message to its active file
AppendRecord(s) ==
    /\ wk[s].pc = "append"
    /\ file' = [file EXCEPT ![s] = Append(@, wk[s].rec)]
    /\ wk' = [wk EXCEPT ![s] = IdleWriter]
    /\ UNCHANGED <<zone, now, notConc, prod, nrec, queue, chk, archive, swaps, serial>>

ConcNext ==
    \/ Tick(DayLen \div 2)
    \/ \E p \in Producers, m \in ConcMessages, err \in BOOLEAN : Stamp(p, m, err)
    \/ \E p \in Producers : Put(p)
    \/ \E s \in Sinks : Take(s)
    \/ \E s \in Sinks : Check(s)
    \/ \E s \in Sinks : Advance(s)
    \/ \E s \in Sinks : Swap(s)
    \/ \E s \in Sinks : AppendRecord(s)

SpecConc == ConcInit /\ [][ConcNext]_vars

(***************************************************************************)
(* Operations of LoggerLoader on the registry                              *)
(***************************************************************************)
\* Spellings of handler names passed to add_custom_handler
AddNames == {"FILE", " file ", "STREAM.STD", "default"}

\* Values passed as handler and handler_type to remove_handler
RemoveArgs ==
    {NoneArg} \cup {StrArg(n) : n \in {"FILE", " file ", "default"}}
    \cup {DigitsArg(i) : i \in 0..MaxIds} \cup {IntArg(i) : i \in 0..MaxIds}
HandlerTypes == {"NAME", " id ", "type"}

RegInit ==
    /\ zone = "fixed"
    /\ now = 0
    /\ phase = "new"
    /\ rotate_time = 0
    /\ size_limit = 0
    /\ dtime_limit = 0
    /\ fsize = 0
    /\ frecs = 0
    /\ arch = NoFile
    /\ last = NoCall
    /\ backup_count = 0
    /\ backups = <<>>
    /\ ConcIdle
    /\ RegIdle
    /\ PipeIdle
    /\ RaceIdle
    /\ PathIdle
    /\ MergeIdle
    /\ NewIdle
    /\ HttpIdle

\* The call record of the next call
Called(op, l, h, ht, raised) ==
    [seq |-> 1 - call.seq, op |-> op, loader |-> l, arg |-> h, htype |-> ht,
     raised |-> raised,
     ret |-> IF op = "load" /\ raised = "none" THEN "logger" ELSE "None"]

\* A call that raises and changes nothing
Raise(op, l, h, ht, exc) ==
    /\ call' = Called(op, l, h, ht, exc)
    /\ UNCHANGED <<handlers, handlers_count, handlers_map>>

\* logger.remove(); self.handlers_map.clear()
RemoveAll(l, h, ht) ==
    /\ handlers' = <<>>
    /\ handlers_map' = [handlers_map EXCEPT ![l] = <<>>]
    /\ call' = Called("remove", l, h, ht, "none")
    /\ UNCHANGED handlers_count

\* remove_handler(handler=h, handler_type=ht) on loader l
RemoveHandler(l, h, ht) ==
    /\ LET m == handlers_map[l]
       IN IF ~ValidHandlerArg(h)
          THEN Raise("remove", l, h, ht, "ValidationError")
          ELSE IF Truthy(h) /\ Normalise(ht) = "NAME" /\ InMapKeys(h, m)
          THEN IF m[h.name] \in DOMAIN handlers
               THEN /\ handlers' = MapPop(handlers, m[h.name])
                    /\ handlers_map' = [handlers_map EXCEPT ![l] = MapPop(m, h.name)]
                    /\ call' = Called("remove", l, h, ht, "none")
                    /\ UNCHANGED handlers_count
               ELSE \* logger.remove(id): there is no handler with this id
                    Raise("remove", l, h, ht, "ValueError")
          ELSE IF Truthy(h) /\ Normalise(ht) = "ID" /\ InMapValues(h, m)
          THEN \* logger.remove(handler), then the dict is popped while it
               \* is iterated: the first pop is followed by RuntimeError
               /\ handlers' = MapPop(handlers, h.id)
               /\ handlers_map' = [handlers_map EXCEPT ![l] =
                     MapPop(m, CHOOSE n \in DOMAIN m : m[n] = h.id)]
               /\ call' = Called("remove", l, h, ht, "RuntimeError")
               /\ UNCHANGED handlers_count
          ELSE IF Truthy(h) /\ Normalise(ht) \notin {"NAME", "ID"}
          THEN Raise("remove", l, h, ht, "ValueError")
          ELSE RemoveAll(l, h, ht)
    /\ UNCHANGED notReg

\* Keyword arguments of add_custom_handler that the model follows: whether
\* a sink is passed, and the level and the filter ("unset": not passed)
Kwargs(sink, level, filter) == [sink |-> sink, level |-> level, filter |-> filter]

\* The registry as loader l sees it
Reg(l) == [handlers |-> handlers, count |-> handlers_count, map |-> handlers_map[l],
           raised |-> "none"]

\* Faulty variant of Added: the level of a sink added without a level is
\* the one of LoggerConfigPM(), not the one of the loader's configuration
AddedWithDefaultLevel(reg, cfg, l, name, kw, io_ok) ==
    LET n == Normalise(name)
    IN IF name \in DOMAIN reg.map
       THEN [reg EXCEPT !.raised = "ValueError"]
       ELSE IF ~StartsWithStream(n) /\ ~StartsWithFile(n) /\ ~kw.sink
       THEN [reg EXCEPT !.raised = "ValueError"]
       ELSE IF ~io_ok
       THEN [reg EXCEPT !.raised = "Exception"]
       ELSE [handlers |-> MapSet(reg.handlers, reg.count,
                            [owner |-> l, name |-> n,
                             level |-> IF kw.level = "unset" THEN DefaultConfig.level
                                       ELSE kw.level,
                             filter |-> IF kw.filter = "unset" THEN "use_all_filter"
                                        ELSE kw.filter]),
             count |-> reg.count + 1,
             map |-> MapSet(reg.map, n, reg.count),
             raised |-> "none"]

\* The registry after add_custom_handler(handler_name=name, **kw) by loader
\* l with configuration cfg; io_ok: create_dir and logger.add succeed
Added(reg, cfg, l, name, kw, io_ok) ==
    LET n == Normalise(name)
    IN IF name \in DOMAIN reg.map
       THEN [reg EXCEPT !.raised = "ValueError"]
       ELSE IF ~StartsWithStream(n) /\ ~StartsWithFile(n) /\ ~kw.sink
       THEN [reg EXCEPT !.raised = "ValueError"]
       ELSE IF ~io_ok
       THEN \* create_dir or logger.add raised: logged and raised again
            [reg EXCEPT !.raised = "Exception"]
       ELSE [handlers |-> MapSet(reg.handlers, reg.count,
                            [owner |-> l, name |-> n,
                             level |-> IF kw.level = "unset" THEN cfg.level ELSE kw.level,
                             filter |-> IF kw.filter = "unset" THEN "use_all_filter"
                                        ELSE kw.filter]),
             count |-> reg.count + 1,
             map |-> MapSet(reg.map, n, reg.count),
             raised |-> "none"]

\* add_custom_handler(handler_name=name, **kwargs) on loader l; has_sink: a
\* sink is passed in kwargs; io_ok: create_dir and logger.add succeed
AddCustomHandler(l, name, has_sink, io_ok) ==
    /\ handlers_count <= MaxIds
    /\ LET r == Added(Reg(l), config[l], l, name, Kwargs(has_sink, "unset", "unset"), io_ok)
       IN /\ handlers' = r.handlers
          /\ handlers_count' = r.count
          /\ handlers_map' = [handlers_map EXCEPT ![l] = r.map]
          /\ call' = Called("add", l, StrArg(name), "", r.raised)
    /\ UNCHANGED notReg

(***************************************************************************)
(* load(), update_config() and the intercept handlers                      *)
(***************************************************************************)
MaxLoadIds == 7        \* handler ids handed out in a behaviour with load()

\* logging: the name before the first dot, and the parent of a logger
Base(m) == IF m = "a.b" THEN "a" ELSE m
Parent(m) == IF m = "a.b" THEN "a" ELSE "root"

\* For every m in S: _logger = logging.getLogger(m); _logger.handlers = hs.
\* getLogger creates the logger, and a placeholder for its parent, when
\* they are not in loggerDict
SetHandlers(lg, S, hs) ==
    [x \in LoggerNames |->
        IF x \in S
        THEN [lg[x] EXCEPT !.exists = TRUE, !.handlers = hs]
        ELSE IF x \in {Parent(m) : m \in S}
        THEN [lg[x] EXCEPT !.exists = TRUE]
        ELSE lg[x]]

\* The names the auto_load loop gives the intercept handler
AutoLoaded(lg, ic) ==
    IF ic.auto_load.enabled
    THEN {IF ic.auto_load.only_base THEN Base(m) ELSE m : m \in {x \in Modules : lg[x].exists}}
            \ ic.auto_load.ignore_modules
    ELSE {}

\* Faulty variant of Included: include_modules goes through ignore_modules
IncludedUnlessIgnored(ic) == ic.include_modules \ ic.auto_load.ignore_modules

\* The names the include_modules loop gives the intercept handler
Included(ic) == ic.include_modules

\* _load_intercept_handlers()
LoadInterceptHandlers(lg, ic) ==
    LET basic == [lg EXCEPT !["root"].handlers = {"intercept"}]
        auto == SetHandlers(basic, AutoLoaded(basic, ic), {"intercept"})
        incl == SetHandlers(auto, Included(ic), {"intercept"})
    IN SetHandlers(incl, ic.mute_modules, {})

\* The add_custom_handler calls of load(), in order: name and kwargs
LoadSinks(cfg) ==
    (IF cfg.stream.std_handler.enabled
     THEN <<[name |-> "STREAM.STD", kw |-> Kwargs(FALSE, "unset", "use_std_filter")]>>
     ELSE <<>>)
    \o (IF cfg.file.log_handlers.enabled
        THEN <<[name |-> "FILE", kw |-> Kwargs(FALSE, "unset", "use_file_filter")],
               [name |-> "FILE_ERR", kw |-> Kwargs(TRUE, "WARNING", "use_file_err_filter")]>>
        ELSE <<>>)
    \o (IF cfg.file.json_handlers.enabled
        THEN <<[name |-> "FILE.JSON", kw |-> Kwargs(TRUE, "unset", "use_file_json_filter")],
               [name |-> "FILE.JSON_ERR",
                kw |-> Kwargs(TRUE, "WARNING", "use_file_json_err_filter")]>>
        ELSE <<>>)

\* The adds of todo from the i-th on, up to the first one that raises; the
\* add number fail meets an I/O failure
RECURSIVE AddAll(_, _, _, _, _, _)
AddAll(reg, cfg, l, todo, i, fail) ==
    IF i > Len(todo) \/ reg.raised # "none"
    THEN reg
    ELSE AddAll(Added(reg, cfg, l, todo[i].name, todo[i].kw, i # fail), cfg, l, todo,
                i + 1, fail)

\* Faulty variant of Cleared: only the handlers_map is cleared
ClearedMapOnly(reg) == [reg EXCEPT !.map = <<>>]

\* self.remove_handler() in load(): logger.remove(); handlers_map.clear()
Cleared(reg) == [reg EXCEPT !.handlers = <<>>, !.map = <<>>]

\* load() on loader l
Load(l, fail) ==
    LET cfg == config[l]
        todo == LoadSinks(cfg)
        r == AddAll(Cleared(Reg(l)), cfg, l, todo, 1, fail)
    IN /\ handlers_count + Len(todo) <= MaxLoadIds + 1
       /\ fail <= Len(todo)
       /\ handlers' = r.handlers
       /\ handlers_count' = r.count
       /\ handlers_map' = [handlers_map EXCEPT ![l] = r.map]
       /\ call' = Called("load", l, NoneArg, "", r.raised)
       /\ loggers' = IF r.raised = "none"
                     THEN LoadInterceptHandlers(loggers, cfg.intercept)
                     ELSE loggers
       /\ file_config' = IF l = "main" THEN CheckConfig(file_config) ELSE file_config
       /\ sink_paths' =
             IF l = "main"
             THEN [n \in {r.handlers[i].name : i \in DOMAIN r.handlers} \cap
                          {"FILE", "FILE_ERR", "FILE.JSON", "FILE.JSON_ERR"} |->
                      LogPath(file_config', SinkOf(file_config', n))]
             ELSE sink_paths
       /\ UNCHANGED <<config, emitted, notPipe>>

\* The dictionaries passed to update_config, by name
ConfigDicts ==
    [level_debug |-> [level |-> Val("DEBUG")],
     std_off |-> [stream |-> Dict([std_handler |-> Dict([enabled |-> Val("false")])])],
     log_on |-> [file |-> Dict([log_handlers |-> Dict([enabled |-> Val("true")])])],
     json_on |-> [file |-> Dict([json_handlers |-> Dict([enabled |-> Val("true")])])],
     json_on_file_bad |-> [file |-> Dict([json_handlers |-> Dict([enabled |-> Val("true")]),
                                          log_handlers |-> Val("x")])],
     log_on_level_bad |-> [file |-> Dict([log_handlers |-> Dict([enabled |-> Val("true")])]),
                           level |-> Val("verbose")],
     file_bad |-> [file |-> Val("x")]]

\* The LoggerConfigPM instances passed to update_config, by name
ConfigModels ==
    [default |-> DefaultConfig,
     all_on |-> [DefaultConfig EXCEPT !.level = "TRACE",
                                      !.file.log_handlers.enabled = TRUE,
                                      !.file.json_handlers.enabled = TRUE]]

\* Faulty variant of Updated: a failed validation resets the configuration
UpdatedOrReset(cfg, merged) ==
    IF ValidConfig(merged) THEN ParseConfig(merged) ELSE DefaultConfig

\* self.config after `self.config = LoggerConfigPM(**_merged_dict)` inside
\* try: the assignment does not happen when the constructor raises
Updated(cfg, merged) ==
    IF ValidConfig(merged) THEN ParseConfig(merged) ELSE cfg

\* update_config(config=a) on loader l, a the name of a dict or of a model
UpdateConfig(l, a) ==
    /\ IF a \in DOMAIN ConfigDicts
       THEN LET _config_dict == ModelDump(config[l])
                _merged_dict == deep_merge(_config_dict, ConfigDicts[a])
            IN /\ config' = [config EXCEPT ![l] = Updated(config[l], _merged_dict)]
               /\ call' = Called("update_config", l, StrArg(a), "",
                                 IF ValidConfig(_merged_dict) THEN "none"
                                 ELSE "ValidationError")
       ELSE /\ config' = [config EXCEPT ![l] = ConfigModels[a]]
            /\ call' = Called("update_config", l, StrArg(a), "", "none")
    /\ UNCHANGED <<handlers, handlers_count, handlers_map, loggers, emitted, notPipe, pathVars>>

\* A loader is configured again and again
CfgNext ==
    \E a \in DOMAIN ConfigDicts \cup DOMAIN ConfigModels : UpdateConfig("main", a)

SpecCfg == RegInit /\ [][CfgNext]_vars

\* A loader is configured and loaded, handlers are added and removed
LoadNext ==
    \/ \E a \in {"std_off", "log_on", "json_on", "file_bad", "all_on"} :
          UpdateConfig("main", a)
    \/ \E fail \in 0..5 : Load("main", fail)
    \/ \E name \in {"FILE", "CUSTOM"} : AddCustomHandler("main", name, TRUE, TRUE)

SpecLoad == RegInit /\ [][LoadNext]_vars

\* The paths of the json group: the default ones, and a log_path and an
\* err_path that are two spellings of one name
JsonPaths ==
    {DefaultFileConfig.json_handlers,
     [log_path |-> DefaultFileConfig.json_handlers.log_path,
      err_path |-> [DefaultFileConfig.json_handlers.log_path EXCEPT !.dir = "."]]}

\* The paths of the configurations that validation accepts
FileConfigs ==
    {fc \in [app_name : AppNames, logs_dir : LogsDirs,
             log_handlers : [log_path : Paths, err_path : Paths],
             json_handlers : JsonPaths] :
        CheckLogPath(fc.log_handlers) /\ CheckLogPath(fc.json_handlers)}

PathInit ==
    /\ zone = "fixed"
    /\ now = 0
    /\ phase = "new"
    /\ rotate_time = 0
    /\ size_limit = 0
    /\ dtime_limit = 0
    /\ fsize = 0
    /\ frecs = 0
    /\ arch = NoFile
    /\ last = NoCall
    /\ backup_count = 0
    /\ backups = <<>>
    /\ ConcIdle
    /\ RegIdle
    /\ config = [l \in Loaders |-> IF l = "main" THEN ConfigModels.all_on
                                   ELSE DefaultConfig]
    /\ loggers = FreshLoggers
    /\ emitted = NoEmit
    /\ RaceIdle
    /\ file_config \in FileConfigs
    /\ sink_paths = <<>>
    /\ MergeIdle
    /\ NewIdle
    /\ HttpIdle

\* A loader whose file sinks are all enabled is loaded
PathNext == \E fail \in 0..1 : Load("main", fail)

SpecPath == PathInit /\ [][PathNext]_vars

(***************************************************************************)
(* The constructor of LoggerLoader and the config_file_path setter         *)
(***************************************************************************)
\* The config_file_path setter: what it raises and the path it stores
SetPath(config_file_path_arg) ==
    LET stripped == [config_file_path_arg EXCEPT !.pad = FALSE]
        ext == Lower(stripped.ext)
    IN IF stripped = EmptyStr
       THEN [raised |-> "ValueError", path |-> stripped]
       ELSE IF ext \notin {".yml", ".yaml"} /\ ext # ".json"
       THEN IF ext # ".toml"
            THEN [raised |-> "NotImplementedError", path |-> stripped]
            ELSE [raised |-> "ValueError", path |-> stripped]
       ELSE [raised |-> "none",
             path |-> IF IsAbs(stripped.dir) THEN stripped
                      ELSE [stripped EXCEPT !.dir = "/srv"]]

\* `loader.config_file_path = p` on loader l
SetConfigFilePath(l, p) ==
    /\ config_file_path' =
          IF SetPath(p).raised = "none"
          THEN [config_file_path EXCEPT ![l] = SetPath(p).path]
          ELSE config_file_path
    /\ call' = Called("config_file_path", l, NoneArg, "", SetPath(p).raised)
    /\ last_args' = [NoArgs EXCEPT !.path = p]
    /\ UNCHANGED <<handlers, handlers_count, handlers_map, pipeVars, pathVars, environ,
                   config_file, rotVars, concVars, raceVars, mergeVars,
                   httpVars>>

\* What the configuration file holds: nothing (there is no file), a
\* document without a 'logger' section, or a 'logger' section with one of
\* the dictionaries of ConfigDicts
ConfigFiles == {"missing", "no_logger", "level_debug", "file_bad"}

\* update_config(config) in the constructor, _load_config_file(): the
\* configuration after a dictionary is merged into it, and what is raised
Merged(cfg, d) ==
    LET _merged_dict == deep_merge(ModelDump(cfg), ConfigDicts[d])
    IN [raised |-> IF ValidConfig(_merged_dict) THEN "none" ELSE "ValidationError",
        config |-> Updated(cfg, _merged_dict)]

\* _load_env_vars(): the setter is tried with BEANS_LOGGING_CONFIG_PATH when
\* it is set and not empty; a failure is logged and the path is kept
LoadEnvVars(path, env) ==
    IF env # EmptyStr /\ SetPath(env).raised = "none" THEN SetPath(env).path ELSE path

\* Faulty variant of Loads: the constructor loads whatever auto_load is
LoadsAlways(raised, auto_load) == raised = "none"

\* `if auto_load: self.load()`, reached when nothing was raised before
Loads(raised, auto_load) == raised = "none" /\ auto_load

MaxNewIds == 2         \* handler ids handed out in a behaviour with LoggerLoader()

\* LoggerLoader(config, config_file_path, auto_config_file, auto_load),
\* bound to the name l
New(l, config_arg, config_file_path_arg, auto_config_file, auto_load) ==
    LET c1 == IF config_arg = "None"
              THEN [raised |-> "none", config |-> DefaultConfig]
              ELSE IF config_arg \in DOMAIN ConfigDicts
              THEN Merged(DefaultConfig, config_arg)
              ELSE [raised |-> "none", config |-> ConfigModels[config_arg]]
        p1 == SetPath(config_file_path_arg)
        path == LoadEnvVars(p1.path, environ)
        c2 == IF auto_config_file /\ config_file \notin {"missing", "no_logger"}
              THEN Merged(c1.config, config_file)
              ELSE c1
        raised == IF c1.raised # "none" THEN c1.raised
                  ELSE IF p1.raised # "none" THEN p1.raised
                  ELSE c2.raised
        todo == LoadSinks(c2.config)
        r == AddAll(Cleared([Reg(l) EXCEPT !.map = DefaultMap]), c2.config, l, todo, 1, 0)
        loads == Loads(raised, auto_load)
    IN /\ handlers_count + Len(todo) <= MaxNewIds + 1
       /\ call' = Called("init", l, NoneArg, "", raised)
       /\ last_args' = [config |-> config_arg, auto_config_file |-> auto_config_file,
                        auto_load |-> auto_load, path |-> config_file_path_arg]
       /\ handlers_map' = IF raised # "none" THEN handlers_map
                          ELSE [handlers_map EXCEPT ![l] = IF loads THEN r.map
                                                           ELSE DefaultMap]
       /\ config' = IF raised # "none" THEN config ELSE [config EXCEPT ![l] = c2.config]
       /\ config_file_path' = IF raised # "none" THEN config_file_path
                              ELSE [config_file_path EXCEPT ![l] = path]
       /\ handlers' = IF loads THEN r.handlers ELSE handlers
       /\ handlers_count' = IF loads THEN r.count ELSE handlers_count
       /\ loggers' = IF loads THEN LoadInterceptHandlers(loggers, c2.config.intercept)
                     ELSE loggers
       /\ file_config' = IF raised # "none" \/ l # "main" THEN file_config
                         ELSE IF loads THEN CheckConfig(DefaultFileConfig)
                         ELSE DefaultFileConfig
       /\ sink_paths' =
             IF loads /\ l = "main"
             THEN [n \in {r.handlers[i].name : i \in DOMAIN r.handlers} \cap
                          {"FILE", "FILE_ERR", "FILE.JSON", "FILE.JSON_ERR"} |->
                      LogPath(file_config', SinkOf(file_config', n))]
             ELSE sink_paths
       /\ UNCHANGED <<emitted, environ, config_file, rotVars, concVars, raceVars, mergeVars,
                   httpVars>>

\* The values of BEANS_LOGGING_CONFIG_PATH: not set, blank, and paths the
\* setter accepts or rejects
Environs ==
    {EmptyStr, [EmptyStr EXCEPT !.pad = TRUE],
     [pad |-> FALSE, dir |-> "/etc", name |-> "logger", ext |-> ".json"],
     [pad |-> TRUE, dir |-> "", name |-> "logger", ext |-> ".YAML"],
     [pad |-> FALSE, dir |-> "/etc", name |-> "logger", ext |-> ".toml"]}

NewInit ==
    /\ zone = "fixed"
    /\ now = 0
    /\ phase = "new"
    /\ rotate_time = 0
    /\ size_limit = 0
    /\ dtime_limit = 0
    /\ fsize = 0
    /\ frecs = 0
    /\ arch = NoFile
    /\ last = NoCall
    /\ backup_count = 0
    /\ backups = <<>>
    /\ ConcIdle
    /\ RegIdle
    /\ PipeIdle
    /\ RaceIdle
    /\ PathIdle
    /\ MergeIdle
    /\ config_file_path = [l \in Loaders |-> CONFIG_FILE_PATH]
    /\ environ \in Environs
    /\ config_file \in ConfigFiles
    /\ last_args = NoArgs
    /\ HttpIdle

\* A loader is constructed and its config_file_path is assigned, while
\* another loader adds handlers to the logger they share
NewNext ==
    \/ \E config_arg \in {"None", "file_bad", "default"},
          config_file_path_arg \in {CONFIG_FILE_PATH,
                                    [CONFIG_FILE_PATH EXCEPT !.dir = "/etc", !.ext = ".json"]},
          auto_config_file, auto_load \in BOOLEAN :
          New("main", config_arg, config_file_path_arg, auto_config_file, auto_load)
    \/ /\ handlers_count = 1
       /\ AddCustomHandler("other", "CUSTOM", TRUE, TRUE)

SpecNew == NewInit /\ [][NewNext]_vars

\* The config_file_path of a loader is assigned again and again
SetNext == \E p \in PathStrings : SetConfigFilePath("main", p)

SpecSet == NewInit /\ [][SetNext]_vars

\* One loader works on the registry
RegNext ==
    \/ \E name \in AddNames, has_sink, io_ok \in BOOLEAN :
          AddCustomHandler("main", name, has_sink, io_ok)
    \/ \E h \in RemoveArgs, ht \in HandlerTypes : RemoveHandler("main", h, ht)

SpecReg == RegInit /\ [][RegNext]_vars

(***************************************************************************)
(* Concurrent calls on one LoggerLoader.  The loader takes no lock: a      *)
(* thread can be scheduled between the statements of add_custom_handler    *)
(* and of remove_handler, and logger.add and logger.remove do file I/O.    *)
(***************************************************************************)
\* Handler names the two threads pass to add_custom_handler
RaceNames == {"FILE", "CUSTOM"}

\* `if handler_name in self.handlers_map: raise ValueError(...)`, then
\* `handler_name = handler_name.strip().upper()`
AddCheck(t, name) ==
    /\ threads[t].pc = "idle"
    /\ threads' = [threads EXCEPT ![t] =
          IF name \in DOMAIN handlers_map["main"]
          THEN [IdleThread EXCEPT !.pc = "done", !.handler_name = name,
                                  !.raised = "ValueError"]
          ELSE [IdleThread EXCEPT !.pc = "checked", !.handler_name = Normalise(name)]]
    /\ UNCHANGED <<regVars, notRace>>

\* `_handler_id = logger.add(**kwargs)`, with a sink in kwargs
AddLoggerAdd(t) ==
    /\ threads[t].pc = "checked"
    /\ handlers' = MapSet(handlers, handlers_count,
                          [owner |-> "main", name |-> threads[t].handler_name,
                           level |-> config["main"].level, filter |-> "use_all_filter"])
    /\ handlers_count' = handlers_count + 1
    /\ threads' = [threads EXCEPT ![t].pc = "added", ![t]._handler_id = handlers_count]
    /\ UNCHANGED <<handlers_map, call, notRace>>

\* `self.handlers_map[handler_name] = _handler_id`
AddStore(t) ==
    /\ threads[t].pc = "added"
    /\ handlers_map' = [handlers_map EXCEPT !["main"] =
                           MapSet(@, threads[t].handler_name, threads[t]._handler_id)]
    /\ threads' = [threads EXCEPT ![t].pc = "done"]
    /\ UNCHANGED <<handlers, handlers_count, call, notRace>>

\* remove_handler(): `logger.remove()`
RemoveLoggerRemove(t) ==
    /\ threads[t].pc = "idle"
    /\ handlers' = <<>>
    /\ threads' = [threads EXCEPT ![t].pc = "removed"]
    /\ UNCHANGED <<handlers_count, handlers_map, call, notRace>>

\* remove_handler(): `self.handlers_map.clear()`
RemoveClear(t) ==
    /\ threads[t].pc = "removed"
    /\ handlers_map' = [handlers_map EXCEPT !["main"] = <<>>]
    /\ threads' = [threads EXCEPT ![t].pc = "done"]
    /\ UNCHANGED <<handlers, handlers_count, call, notRace>>

\* Two threads add a handler while a third removes all handlers
RaceNext ==
    \/ \E t \in Adders, name \in RaceNames : AddCheck(t, name)
    \/ \E t \in Adders : AddLoggerAdd(t)
    \/ \E t \in Adders : AddStore(t)
    \/ RemoveLoggerRemove(Remover)
    \/ RemoveClear(Remover)

SpecRace == RegInit /\ [][RaceNext]_vars

(***************************************************************************)
(* Filters and the dispatch of a record to the handlers                    *)
(***************************************************************************)
\* The per-record flags of the extra dict
Flags == {"disable_all", "disable_std", "disable_file", "disable_file_err",
          "disable_file_json", "disable_file_json_err"}

\* record["extra"].get(key, False), taken as a condition
Get(extra, key) == IF key \in DOMAIN extra THEN extra[key] ELSE FALSE

\* add_level_short(record): the record with the key level_short
add_level_short(record) ==
    IF record.level_short = NoKey
    THEN [record EXCEPT !.level_short =
            CASE record.level = "SUCCESS" -> "OK"
              [] record.level = "WARNING" -> "WARN"
              [] record.level = "CRITICAL" -> "CRIT"
              [] OTHER -> record.level]
    ELSE record

\* Faulty variant of use_all_filter: disable_all is not looked at
use_all_filter_always(record) == [ok |-> TRUE, rec |-> add_level_short(record)]

\* A filter gives its result and the record as it leaves it
use_all_filter(record) ==
    LET r == add_level_short(record)
    IN [ok |-> ~Get(r.extra, "disable_all"), rec |-> r]

\* use_std_filter .. use_file_json_err_filter: use_all_filter, then the flag
\* of the filter
use_flag_filter(record, flag) ==
    LET a == use_all_filter(record)
    IN [ok |-> a.ok /\ ~Get(a.rec.extra, flag), rec |-> a.rec]

\* The flag each filter looks at after disable_all
FilterFlag(f) ==
    CASE f = "use_std_filter" -> "disable_std"
      [] f = "use_file_filter" -> "disable_file"
      [] f = "use_file_err_filter" -> "disable_file_err"
      [] f = "use_file_json_filter" -> "disable_file_json"
      [] f = "use_file_json_err_filter" -> "disable_file_json_err"

\* Faulty variant of use_http_filter: the key http_info is not looked for
use_http_filter_any(record) == use_all_filter(record)

\* fastapi: use_http_filter(record): use_all_filter, then "http_info" has
\* to be a key of record["extra"]
use_http_filter(record) ==
    LET a == use_all_filter(record)
    IN [ok |-> a.ok /\ "http_info" \in DOMAIN a.rec.extra, rec |-> a.rec]

\* The filter named f applied to a record
ApplyFilter(f, record) ==
    CASE f = "none" -> [ok |-> TRUE, rec |-> record]
      [] f = "use_all_filter" -> use_all_filter(record)
      [] f = "use_http_filter" -> use_http_filter(record)
      [] OTHER -> use_flag_filter(record, FilterFlag(f))

\* The logger hands the record to its handlers in the order of their ids;
\* a handler takes it when the level reaches its own and its filter passes.
\* The result is the record as the filters leave it and the ids that wrote.
RECURSIVE Dispatch(_, _, _, _)
Dispatch(hs, ids, record, wrote) ==
    IF ids = {}
    THEN [rec |-> record, sinks |-> wrote]
    ELSE LET i == CHOOSE x \in ids : \A y \in ids : x <= y
         IN IF LevelNo(record.level) < LevelNo(hs[i].level)
            THEN Dispatch(hs, ids \ {i}, record, wrote)
            ELSE LET f == ApplyFilter(hs[i].filter, record)
                 IN Dispatch(hs, ids \ {i}, f.rec, IF f.ok THEN wrote \cup {i} ELSE wrote)

\* A record as the logger builds it
NewRecord(level, extra) == [level |-> level, extra |-> extra, level_short |-> NoKey]

\* The extra dicts of the records of the model: up to two flags that are
\* True and nothing else, or every flag with the value False
Extras ==
    {[k \in T |-> TRUE] : T \in {T \in SUBSET Flags : Cardinality(T) <= 2}}
    \cup {[k \in Flags |-> FALSE]}

\* The levels of the records of the model
RecordLevels == {"DEBUG", "SUCCESS", "WARNING", "ERROR", "CRITICAL"}

\* logger.bind(**extra).log(level, message) by the application
Emit(level, extra) ==
    /\ LET d == Dispatch(handlers, DOMAIN handlers, NewRecord(level, extra), {})
       IN emitted' = [seq |-> 1 - emitted.seq, via |-> "app", module |-> "",
                      level |-> level, extra |-> extra, intercepted |-> 0,
                      level_short |-> d.rec.level_short, sinks |-> d.sinks]
    /\ UNCHANGED <<config, loggers, regVars, notPipe, pathVars>>

\* The configurations a loader is constructed with
PipeConfigs ==
    {[DefaultConfig EXCEPT !.level = lv,
                           !.stream.std_handler.enabled = on[1],
                           !.file.log_handlers.enabled = on[2],
                           !.file.json_handlers.enabled = on[2]] :
        lv \in Levels, on \in {<<TRUE, TRUE>>, <<FALSE, TRUE>>}}

PipeInit ==
    /\ zone = "fixed"
    /\ now = 0
    /\ phase = "new"
    /\ rotate_time = 0
    /\ size_limit = 0
    /\ dtime_limit = 0
    /\ fsize = 0
    /\ frecs = 0
    /\ arch = NoFile
    /\ last = NoCall
    /\ backup_count = 0
    /\ backups = <<>>
    /\ ConcIdle
    /\ RegIdle
    /\ \E c \in PipeConfigs :
          config = [l \in Loaders |-> IF l = "main" THEN c ELSE DefaultConfig]
    /\ loggers = FreshLoggers
    /\ emitted = NoEmit
    /\ RaceIdle
    /\ PathIdle
    /\ MergeIdle
    /\ NewIdle
    /\ HttpIdle

\* A loader is loaded and the application logs
PipeNext ==
    \/ Load("main", 0)
    \/ \E level \in RecordLevels, extra \in Extras : Emit(level, extra)

SpecPipe == PipeInit /\ [][PipeNext]_vars

(***************************************************************************)
(* Foreign loggers of the standard logging module                          *)
(***************************************************************************)
\* A library calls logging.getLogger(m) and, when own, gives the logger a
\* handler of its own
ForeignGetLogger(m, own) ==
    /\ loggers' = [x \in LoggerNames |->
                     IF x = m
                     THEN [loggers[x] EXCEPT !.exists = TRUE,
                              !.handlers = IF own THEN @ \cup {"own"} ELSE @]
                     ELSE IF x = Parent(m)
                     THEN [loggers[x] EXCEPT !.exists = TRUE]
                     ELSE loggers[x]]
    /\ UNCHANGED <<config, emitted, regVars, notPipe, pathVars>>

\* Logger.callHandlers: the loggers whose handlers get a record logged
\* through logger m, from m up to the root while propagate is set
RECURSIVE Chain(_, _)
Chain(lg, m) ==
    IF m = "root" \/ ~lg[m].propagate THEN {m} ELSE {m} \cup Chain(lg, Parent(m))

\* A record is logged through the foreign logger m: every InterceptHandler
\* on the way calls emit, which logs the record with the loguru logger
ForeignLog(m, level) ==
    /\ LET n == Cardinality({x \in Chain(loggers, m) : "intercept" \in loggers[x].handlers})
           d == Dispatch(handlers, DOMAIN handlers, NewRecord(level, <<>>), {})
       IN emitted' = [seq |-> 1 - emitted.seq, via |-> "foreign", module |-> m,
                      level |-> level, extra |-> <<>>, intercepted |-> n,
                      level_short |-> IF n > 0 THEN d.rec.level_short ELSE NoKey,
                      sinks |-> IF n > 0 THEN d.sinks ELSE {}]
    /\ UNCHANGED <<config, loggers, regVars, notPipe, pathVars>>

\* The intercept settings a loader is constructed with
InterceptConfigs ==
    {[DefaultConfig EXCEPT !.intercept =
          [auto_load |-> [enabled |-> auto[1], only_base |-> auto[2], ignore_modules |-> ign],
           include_modules |-> inc,
           mute_modules |-> mute]] :
        auto \in BOOLEAN \X BOOLEAN, ign \in {{}, {"a.b"}},
        inc \in {{}, {"a.b"}}, mute \in {{}, {"a.b"}, {"c"}}}

IcptInit ==
    /\ zone = "fixed"
    /\ now = 0
    /\ phase = "new"
    /\ rotate_time = 0
    /\ size_limit = 0
    /\ dtime_limit = 0
    /\ fsize = 0
    /\ frecs = 0
    /\ arch = NoFile
    /\ last = NoCall
    /\ backup_count = 0
    /\ backups = <<>>
    /\ ConcIdle
    /\ RegIdle
    /\ \E c \in InterceptConfigs :
          config = [l \in Loaders |-> IF l = "main" THEN c ELSE DefaultConfig]
    /\ loggers = FreshLoggers
    /\ emitted = NoEmit
    /\ RaceIdle
    /\ PathIdle
    /\ MergeIdle
    /\ NewIdle
    /\ HttpIdle

\* Libraries create loggers, the loader is loaded, libraries log
IcptNext ==
    \/ \E m \in Modules, own \in BOOLEAN : ForeignGetLogger(m, own)
    \/ Load("main", 0)
    \/ \E m \in Modules : ForeignLog(m, "WARNING")

SpecIcpt == IcptInit /\ [][IcptNext]_vars

(***************************************************************************)
(* Properties of the rotation policy                                       *)
(***************************************************************************)
\* The cutover the policy is meant to hold after a record with timestamp t
\* crossed cutover C: whole days are added to C until the result exceeds t
DueCutover(z, C, t) ==
    C + DayLen * (CHOOSE n \in 1..(MaxTime \div DayLen + 3) :
                    /\ Timestamp(z, C + n * DayLen) > t
                    /\ \A k \in 1..(n - 1) : Timestamp(z, C + k * DayLen) <= t)

\* The record of the last call reached or passed the cutover it met
LastCrossedCutover == last.called /\ last.t >= Timestamp(zone, last.limit_before)

\* C1: after every write the active file holds at most size_limit bytes,
\* unless it holds nothing but the record whose append caused the crossing;
\* that record is whole in the new file and the archived file is the old
\* file as it was before the write.
C1_SizeNeverExceeded ==
    last.called =>
        /\ fsize > size_limit => (frecs = 1 /\ last.rotate)
        /\ last.rotate => (fsize = last.nbytes /\ frecs = 1 /\ arch.size = last.pos)

\* C2: after every should_rotate call the stored cutover is strictly later
\* than the timestamp of the record just evaluated.
C2_CutoverAfterLastRecord ==
    last.called => Timestamp(zone, dtime_limit) > last.t

\* C3: a record at or past the cutover triggers a rotation, and the record
\* that follows it, not earlier than it, still before the cutover due after
\* the crossing and not overflowing the size limit, triggers no second one.
C3_OneRotationPerCutover ==
    [][last'.called /\ last' # last =>
         /\ last'.t >= Timestamp(zone, last'.limit_before) => last'.rotate
         /\ ( /\ LastCrossedCutover
              /\ last.rotate
              /\ last'.t >= last.t
              /\ last'.t < Timestamp(zone, DueCutover(zone, last.limit_before, last.t))
              /\ last'.pos + last'.len <= size_limit )
            => ~last'.rotate]_vars

\* C4: after a time-triggered rotation the cutover is the previous cutover
\* plus the smallest number n >= 1 of whole days that puts it after the
\* record, so it lies at most one day after the record.
C4_CutoverAdvancesByWholeDays ==
    (last.called /\ last.by = "time") =>
        /\ dtime_limit = DueCutover(zone, last.limit_before, last.t)
        /\ Timestamp(zone, dtime_limit) - last.t > 0
        /\ Timestamp(zone, dtime_limit) - last.t <= DayLen

\* C5: on every call both conditions are evaluated: the size condition
\* triggers a rotation, the time condition triggers a rotation and advances
\* the cutover, also on a call where the size condition holds.
C5_BothConditionsEvaluated ==
    last.called =>
        /\ last.pos + last.len > size_limit => last.rotate
        /\ LastCrossedCutover => (last.rotate /\ dtime_limit > last.limit_before)

RECURSIVE Occurrences(_, _)
Occurrences(id, f) ==
    IF f = <<>> THEN 0
    ELSE (IF Head(f).id = id THEN 1 ELSE 0) + Occurrences(id, Tail(f))

\* Where record id is in the pipeline of sink s
Copies(id, s) ==
    Occurrences(id, queue[s]) + Occurrences(id, file[s]) + Occurrences(id, archive[s])
    + (IF wk[s].pc # "idle" /\ wk[s].rec.id = id THEN 1 ELSE 0)

IsCall(op) == call'.seq # call.seq /\ call'.op = op

\* C8: add_custom_handler with a name whose normal form (strip, upper-case)
\* is registered in the loader's handlers_map raises ValueError, adds no
\* handler to the logger and leaves handlers_map unchanged.
C8_DuplicateNameRejected ==
    [][(IsCall("add") /\ Normalise(call'.arg.name) \in DOMAIN handlers_map[call'.loader])
         => /\ call'.raised = "ValueError"
            /\ handlers' = handlers
            /\ handlers_map' = handlers_map]_vars

\* C9: remove_handler(name) for a name that is not (or no more) registered
\* does nothing or raises, and leaves the logger's handlers and the
\* handlers_map as they were.
C9_RemoveUnknownNameIsSafe ==
    [][(/\ IsCall("remove")
        /\ Normalise(call'.htype) = "NAME"
        /\ call'.arg.kind = "str"
        /\ call'.arg.name # ""
        /\ call'.arg.name \notin DOMAIN handlers_map[call'.loader])
         => /\ handlers' = handlers
            /\ handlers_map' = handlers_map]_vars

\* C10: remove_handler(id, 'ID') for an id present in handlers_map returns
\* without raising, removes that handler from the logger and its entry from
\* handlers_map, and leaves every other handler and entry in place.
C10_RemoveByIdRemovesExactlyOne ==
    [][(/\ IsCall("remove")
        /\ Normalise(call'.htype) = "ID"
        /\ call'.arg.kind \in {"int", "digits"}
        /\ \E n \in DOMAIN handlers_map[call'.loader] :
              handlers_map[call'.loader][n] = call'.arg.id)
         => LET l == call'.loader
                m == handlers_map[l]
                keep == {n \in DOMAIN m : m[n] # call'.arg.id}
            IN /\ call'.raised = "none"
               /\ handlers' = MapPop(handlers, call'.arg.id)
               /\ handlers_map' = [handlers_map EXCEPT ![l] = [n \in keep |-> m[n]]]]_vars

\* C11: remove_handler with a handler_type that is neither 'NAME' nor 'ID'
\* after strip and upper-case raises, whatever the handler argument is, and
\* leaves the logger's handlers and the handlers_map as they were.
C11_InvalidHandlerTypeRejected ==
    [][(IsCall("remove") /\ Normalise(call'.htype) \notin {"NAME", "ID"})
         => /\ call'.raised # "none"
            /\ handlers' = handlers
            /\ handlers_map' = handlers_map]_vars

ExpectedSinks(cfg) ==
    {n \in {"STREAM.STD"} : cfg.stream.std_handler.enabled}
    \cup {n \in {"FILE", "FILE_ERR"} : cfg.file.log_handlers.enabled}
    \cup {n \in {"FILE.JSON", "FILE.JSON_ERR"} : cfg.file.json_handlers.enabled}

\* C12: a load() that returns leaves exactly the sinks the configuration
\* enables, each registered once and under its name in handlers_map; no
\* handler from before the call survives; load() never raises the
\* duplicate-name ValueError; it returns the logger.
C12_LoadRegistersExactlyConfiguredSinks ==
    [][IsCall("load")
         => /\ call'.raised # "ValueError"
            /\ call'.raised = "none" =>
                 LET l == call'.loader
                     names == ExpectedSinks(config[l])
                 IN /\ DOMAIN handlers_map'[l] = names
                    /\ \A n \in names :
                          /\ handlers_map'[l][n] \in DOMAIN handlers'
                          /\ handlers'[handlers_map'[l][n]].name = n
                    /\ Cardinality(DOMAIN handlers') = Cardinality(names)
                    /\ DOMAIN handlers' \cap DOMAIN handlers = {}
                    /\ call'.ret = "logger"]_vars

\* A load() of all five sinks has returned after earlier handlers were added
C12_Witness ==
    /\ call.op = "load"
    /\ call.raised = "none"
    /\ Cardinality(DOMAIN handlers) = 5
    /\ handlers_count >= 7

\* C20: update_config with a dict whose merge with the configuration fails
\* validation raises and leaves the configuration as it was; when the merge
\* validates, the new configuration is the deep merge of the old one with
\* the dict; with a LoggerConfigPM the new configuration equals the one
\* passed. The configurations of other loaders are untouched.
C20_UpdateConfigIsAtomic ==
    [][IsCall("update_config") =>
         LET l == call'.loader
             a == call'.arg.name
         IN /\ \A o \in Loaders \ {l} : config'[o] = config[o]
            /\ IF a \in DOMAIN ConfigDicts
               THEN LET merged == deep_merge(ModelDump(config[l]), ConfigDicts[a])
                    IN IF ValidConfig(merged)
                       THEN call'.raised = "none" /\ ModelDump(config'[l]) = merged
                       ELSE call'.raised # "none" /\ config'[l] = config[l]
               ELSE call'.raised = "none" /\ config'[l] = ConfigModels[a]]_vars

\* update_config with a dict that enables the log files and carries an
\* invalid level has raised, and the configuration set before is still there
C20_Witness ==
    /\ call.op = "update_config"
    /\ call.arg.name = "log_on_level_bad"
    /\ call.raised # "none"
    /\ ~config["main"].stream.std_handler.enabled
    /\ ~config["main"].file.log_handlers.enabled
    /\ config["main"].level = "INFO"

(***************************************************************************)
(* Properties of the dispatch                                              *)
(***************************************************************************)
\* This step is the emission of a record
IsEmit == emitted'.seq # emitted.seq

\* The flag is in the extra dict of the emitted record and is True
FlagSet(flag) == flag \in DOMAIN emitted'.extra /\ emitted'.extra[flag]

\* The emitted record was written to the registered sink of that name
WroteTo(name) == \E i \in emitted'.sinks : handlers[i].name = name

\* A sink of that name is registered
Registered(name) == \E i \in DOMAIN handlers : handlers[i].name = name

\* The level of the registered sink of that name
SinkLevelNo(name) ==
    LevelNo(handlers[CHOOSE i \in DOMAIN handlers : handlers[i].name = name].level)

\* C13: the level of an error sink is not below the level of the primary
\* sink of its group, and a record without disable flags that is written to
\* the error file of a group is also written to the primary file.
C13_ErrorSinkDuplicatesPrimary ==
    [][IsEmit =>
         \A g \in {<<"FILE", "FILE_ERR">>, <<"FILE.JSON", "FILE.JSON_ERR">>} :
            (Registered(g[1]) /\ Registered(g[2]))
               => /\ SinkLevelNo(g[2]) >= SinkLevelNo(g[1])
                  /\ (WroteTo(g[2]) /\ \A f \in Flags : ~FlagSet(f)) => WroteTo(g[1])]_vars

\* C14: with the console sink and the four file sinks registered, a record
\* with disable_file True is written to no file sink, and to the console
\* sink when its level reaches the console's and no other flag is set.
C14_DisableFileKeepsConsoleOnly ==
    [][(/\ IsEmit
        /\ \A n \in {"STREAM.STD", "FILE", "FILE_ERR", "FILE.JSON", "FILE.JSON_ERR"} :
              Registered(n)
        /\ FlagSet("disable_file"))
         => /\ \A n \in {"FILE", "FILE_ERR", "FILE.JSON", "FILE.JSON_ERR"} : ~WroteTo(n)
            /\ (/\ \A f \in Flags \ {"disable_file"} : ~FlagSet(f)
                /\ LevelNo(emitted'.level) >= SinkLevelNo("STREAM.STD"))
                 => WroteTo("STREAM.STD")]_vars

\* The per-record flag of each default sink
ClassFlag(name) ==
    CASE name = "STREAM.STD" -> "disable_std"
      [] name = "FILE" -> "disable_file"
      [] name = "FILE_ERR" -> "disable_file_err"
      [] name = "FILE.JSON" -> "disable_file_json"
      [] name = "FILE.JSON_ERR" -> "disable_file_json_err"

\* C15: a record is written to a default sink exactly when its level
\* reaches the sink's level, disable_all is not set and the flag of the
\* sink's class is not set; a record with disable_all set is written to no
\* sink that uses a filter of the package.
C15_WrittenIffLevelAndFlags ==
    [][IsEmit =>
         /\ \A i \in DOMAIN handlers :
               handlers[i].owner # "loguru" =>
                  (i \in emitted'.sinks <=>
                     /\ LevelNo(emitted'.level) >= LevelNo(handlers[i].level)
                     /\ ~FlagSet("disable_all")
                     /\ ~FlagSet(ClassFlag(handlers[i].name)))
         /\ FlagSet("disable_all")
               => \A i \in emitted'.sinks : handlers[i].filter \notin Filters]_vars

\* A record with disable_file_json set was written to the console and to the
\* JSON error file and kept out of the JSON file
C15_Witness ==
    /\ emitted.via = "app"
    /\ emitted.sinks \subseteq DOMAIN handlers
    /\ "disable_file_json" \in DOMAIN emitted.extra
    /\ emitted.extra["disable_file_json"]
    /\ {handlers[i].name : i \in emitted.sinks} =
          {"STREAM.STD", "FILE", "FILE_ERR", "FILE.JSON_ERR"}

\* C16: evaluating the filters leaves the record as it was: the logger
\* builds the record without the key level_short, and no key is added.
C16_FiltersLeaveRecordUnchanged ==
    [][IsEmit => emitted'.level_short = NoKey]_vars

(***************************************************************************)
(* Properties of the intercept handlers                                    *)
(***************************************************************************)
\* The last call on the loader was a load() that returned
Loaded == call.op = "load" /\ call.raised = "none"

\* C17: after load(), a record logged through a foreign logger whose name
\* is in mute_modules reaches no InterceptHandler, neither on that logger
\* nor on an ancestor, and is written to no sink.
C17_MutedModuleDropped ==
    [][(/\ IsEmit
        /\ emitted'.via = "foreign"
        /\ Loaded
        /\ emitted'.module \in config[call.loader].intercept.mute_modules)
         => /\ emitted'.intercepted = 0
            /\ emitted'.sinks = {}]_vars

\* C18: after load(), every module of include_modules that is not in
\* mute_modules has a logger whose only handler is the intercept handler,
\* whatever auto_load.enabled, only_base and ignore_modules are.
C18_IncludedModuleIntercepted ==
    [][(IsCall("load") /\ call'.raised = "none")
         => \A m \in config[call'.loader].intercept.include_modules
                       \ config[call'.loader].intercept.mute_modules :
               /\ loggers'[m].exists
               /\ loggers'[m].handlers = {"intercept"}]_vars

\* An included module that auto_load ignores, with auto_load switched off,
\* holds the intercept handler after load()
C18_Witness ==
    /\ Loaded
    /\ ~config["main"].intercept.auto_load.enabled
    /\ config["main"].intercept.include_modules = {"a.b"}
    /\ config["main"].intercept.auto_load.ignore_modules = {"a.b"}
    /\ config["main"].intercept.mute_modules = {"c"}
    /\ loggers["a.b"].handlers = {"intercept"}

AllDone == \A t \in Threads : threads[t].pc = "done"

\* The orders in which the three calls can run one after the other
SerialOrders == {o \in [1..3 -> Threads] : \A t \in Threads : \E i \in 1..3 : o[i] = t}

\* The registry after the calls of the threads have run one at a time
RECURSIVE Serial(_, _)
Serial(reg, order) ==
    IF order = <<>>
    THEN reg
    ELSE LET t == Head(order)
             r == IF t = Remover
                  THEN Cleared(reg)
                  ELSE Added(reg, config["main"], "main", threads[t].handler_name,
                             Kwargs(TRUE, "unset", "unset"), TRUE)
         IN Serial([r EXCEPT !.raised = "none"], Tail(order))

\* What a registry holds, whatever the ids: how many handlers of each name
\* the logger has, the keys of handlers_map, and the keys that lead to a
\* handler of that name
Shape(hs, m) ==
    [sinks |-> [n \in RaceNames \cup {"default"} |->
                   Cardinality({i \in DOMAIN hs : hs[i].name = n})],
     keys |-> DOMAIN m,
     bound |-> {n \in DOMAIN m : m[n] \in DOMAIN hs /\ hs[m[n]].name = n}]

\* The registry before any thread has called the loader
InitialReg == [handlers |-> DefaultHandlers, count |-> 1, map |-> DefaultMap,
               raised |-> "none"]

\* C22: when two threads have called add_custom_handler with the same name
\* and nothing was removed meanwhile, one call has succeeded and the other has raised the duplicate-name
\* ValueError; and when the two adds and a remove_handler() have all ended,
\* the logger's handlers and handlers_map are what the three calls leave in
\* one of their serial orders.
C22_RegistryMutationsExclusive ==
    /\ (/\ \A t \in Adders : threads[t].pc = "done"
        /\ threads[Remover].pc = "idle"
        /\ threads["t1"].handler_name = threads["t2"].handler_name)
       => {threads["t1"].raised, threads["t2"].raised} = {"none", "ValueError"}
    /\ AllDone =>
          Shape(handlers, handlers_map["main"]) \in
             {Shape(Serial(InitialReg, o).handlers, Serial(InitialReg, o).map) :
                 o \in SerialOrders}

(***************************************************************************)
(* The paths of the file sinks                                             *)
(***************************************************************************)
\* C23: after a load() of a configuration that validation has accepted,
\* the primary sink and the error sink of a handler group write to
\* different files: FILE and FILE_ERR have different paths, and so have
\* FILE.JSON and FILE.JSON_ERR.
C23_GroupPathsDiffer ==
    Loaded =>
       /\ sink_paths["FILE"] # sink_paths["FILE_ERR"]
       /\ sink_paths["FILE.JSON"] # sink_paths["FILE.JSON_ERR"]

(***************************************************************************)
(* deep_merge                                                              *)
(***************************************************************************)
\* C24: deep_merge(dict1, dict2) returns a new dictionary, the recursive
\* merge of its arguments: under every key it holds the deep merge of the
\* two values when both are dictionaries, else dict2's value when dict2 has
\* the key, else dict1's value; it shares no object with an argument and
\* leaves both arguments as they were; deep_merge(d, {}) and deep_merge(d, d)
\* are d.
C24_DeepMergeIsRecursiveMerge ==
    [][merged_at' # merged_at =>
          LET d1 == TreeOf(heap, dict1_at)
              d2 == TreeOf(heap, dict2_at)
              m == TreeOf(heap', merged_at')
          IN /\ DOMAIN m = DOMAIN d1 \cup DOMAIN d2
             /\ \A key \in DOMAIN m :
                   IF key \in DOMAIN d1 /\ key \in DOMAIN d2
                      /\ d1[key].t = "dict" /\ d2[key].t = "dict"
                   THEN m[key] = Dict(deep_merge(d1[key].d, d2[key].d))
                   ELSE IF key \in DOMAIN d2
                   THEN m[key] = d2[key]
                   ELSE m[key] = d1[key]
             /\ m = deep_merge(d1, d2)
             /\ TreeOf(heap', dict1_at) = d1
             /\ TreeOf(heap', dict2_at) = d2
             /\ Objects(heap', merged_at') \cap
                   (Objects(heap', dict1_at) \cup Objects(heap', dict2_at)) = {}
             /\ d2 = <<>> => m = d1
             /\ d2 = d1 => m = d1]_vars

\* C24 witness: both arguments hold a dictionary under "x", two different
\* objects that disagree on a key, and the merge took dict2's value for that
\* key and kept the key only dict1's dictionary has
C24_Witness ==
    /\ merged_at # 0
    /\ dict2_at = 2
    /\ "x" \in DOMAIN heap[1] /\ heap[1]["x"] = Ref(3)
    /\ "x" \in DOMAIN heap[2] /\ heap[2]["x"] = Ref(4)
    /\ DOMAIN heap[3] = Keys /\ heap[3]["x"] = Scalar("1")
    /\ DOMAIN heap[4] = {"x"} /\ heap[4]["x"] = Scalar("2")
    /\ TreeOf(heap, merged_at)["x"].d["x"] = Val("2")
    /\ TreeOf(heap, merged_at)["x"].d["y"] = TreeOf(heap, 3)["y"]

(***************************************************************************)
(* The constructor                                                         *)
(***************************************************************************)
\* A LoggerLoader(...) call with auto_load false and the default
\* config_file_path has returned
ConstructedWithoutLoad ==
    /\ IsCall("init")
    /\ call'.raised = "none"
    /\ ~last_args'.auto_load
    /\ last_args'.path = CONFIG_FILE_PATH

\* The new loader has a LoggerConfigPM
HasConfig == ValidConfig(ModelDump(config'["main"]))

\* BEANS_LOGGING_CONFIG_PATH holds a path that ends in .yml, .yaml or .json
EnvPathAccepted ==
    environ.name # "" /\ Lower(environ.ext) \in {".yml", ".yaml", ".json"}

\* C25 as stated: constructing a LoggerLoader with auto_load false adds no
\* handler to and removes no handler from the logger, and leaves the loader
\* with handlers_map {"default": 0}, the default config_file_path and a
\* LoggerConfigPM.
C25_ConstructorLeavesLoggerAlone ==
    [][ConstructedWithoutLoad =>
          /\ handlers' = handlers
          /\ handlers_map'["main"] = DefaultMap
          /\ config_file_path'["main"] = CONFIG_FILE_PATH
          /\ HasConfig]_vars

\* C25 amended: the same, but config_file_path is the default path only
\* when BEANS_LOGGING_CONFIG_PATH is not set or holds a path the setter
\* rejects; otherwise it is that path, stripped and made absolute.
C25_ConstructorLeavesLoggerAloneUnlessEnv ==
    [][ConstructedWithoutLoad =>
          /\ handlers' = handlers
          /\ handlers_count' = handlers_count
          /\ handlers_map'["main"] = DefaultMap
          /\ config_file_path'["main"] =
                IF EnvPathAccepted
                THEN [pad |-> FALSE,
                      dir |-> IF environ.dir = "" THEN "/srv" ELSE environ.dir,
                      name |-> environ.name, ext |-> environ.ext]
                ELSE CONFIG_FILE_PATH
          /\ HasConfig]_vars

\* C25 witness: a loader was constructed without loading while the logger
\* had a handler of another loader, and the configuration file was merged
C25_Witness ==
    /\ call.op = "init"
    /\ call.raised = "none"
    /\ ~last_args.auto_load
    /\ last_args.auto_config_file
    /\ last_args.path = CONFIG_FILE_PATH
    /\ \E i \in DOMAIN handlers : handlers[i].owner = "other"
    /\ config_file = "level_debug"
    /\ config["main"].level = "DEBUG"
    /\ handlers_map["main"] = DefaultMap

(***************************************************************************)
(* The config_file_path setter                                             *)
(***************************************************************************)
\* C27: assigning config_file_path a path that ends in .yml, .yaml or .json
\* in any letter case stores it as an absolute path; a path that ends in
\* .toml raises NotImplementedError, any other extension raises ValueError,
\* an empty or blank path raises ValueError; when the setter raises, the
\* stored path is unchanged.
C27_SetterAcceptsYamlJsonOnly ==
    [][IsCall("config_file_path") =>
          LET p == last_args'.path
              stored == config_file_path'["main"]
          IN IF p.name = ""
             THEN call'.raised = "ValueError" /\ config_file_path' = config_file_path
             ELSE IF Lower(p.ext) \in {".yml", ".yaml", ".json"}
             THEN /\ call'.raised = "none"
                  /\ stored = [pad |-> FALSE,
                               dir |-> IF p.dir = "" THEN "/srv" ELSE p.dir,
                               name |-> p.name, ext |-> p.ext]
             ELSE IF Lower(p.ext) = ".toml"
             THEN /\ call'.raised = "NotImplementedError"
                  /\ config_file_path' = config_file_path
             ELSE /\ call'.raised = "ValueError"
                  /\ config_file_path' = config_file_path]_vars

(***************************************************************************)
(* handlers_map and the handlers of the logger                             *)
(***************************************************************************)
\* C28: every handler the loader has added to the logger and that is still
\* in the logger has a name in the loader's handlers_map that maps to its
\* id, so that the loader can remove it by name.
C28_AddedHandlersStayReachable ==
    \A i \in DOMAIN handlers :
       handlers[i].owner = "main" =>
          \E n \in DOMAIN handlers_map["main"] : handlers_map["main"][n] = i

\* C29: in every reachable state, every entry of the handlers_map of every
\* loader that shares the logger names a handler that is registered in the
\* logger.
C29_MapEntriesAreRegistered ==
    \A l \in Loaders :
       \A n \in DOMAIN handlers_map[l] : handlers_map[l][n] \in DOMAIN handlers

(***************************************************************************)
(* Records of intercepted loggers                                          *)
(***************************************************************************)
\* C30: after load(), a record logged through a foreign logger that carries
\* the intercept handler is logged with the loguru logger exactly once,
\* whichever of its ancestors carry the handler too.
C30_InterceptedRecordEmittedOnce ==
    [][(/\ IsEmit
        /\ emitted'.via = "foreign"
        /\ Loaded
        /\ "intercept" \in loggers[emitted'.module].handlers)
         => emitted'.intercepted = 1]_vars

(***************************************************************************)
(* fastapi: HttpAccessLogMiddleware and the http file handlers             *)
(***************************************************************************)
\* The status codes of the responses of the model: both ends of each class
StatusCodes == {100, 199, 200, 299, 300, 399, 400, 499, 500, 599}

\* dispatch: _LEVEL, chosen from _http_info["status_code"]
LEVEL(status_code) ==
    IF status_code < 200 THEN "DEBUG"
    ELSE IF 200 <= status_code /\ status_code < 300 THEN "SUCCESS"
    ELSE IF 300 <= status_code /\ status_code < 400 THEN "INFO"
    ELSE IF 400 <= status_code /\ status_code < 500 THEN "WARNING"
    ELSE IF 500 <= status_code THEN "ERROR"
    ELSE "INFO"

\* extra of the record of _logger.bind(http_info=_http_info).log(...)
HttpExtra(status_code) == [k \in {"http_info"} |-> [status_code |-> status_code]]

\* A record logged by dispatch, and the handlers that wrote it
Logged(level, extra) ==
    LET d == Dispatch(handlers, DOMAIN handlers, NewRecord(level, extra), {})
    IN [level |-> level, extra |-> extra, level_short |-> d.rec.level_short,
        sinks |-> d.sinks]

\* `emitted` after dispatch has logged record r
EmittedByHttp(r) ==
    [seq |-> 1 - emitted.seq, via |-> "http", module |-> "", level |-> r.level,
     extra |-> r.extra, intercepted |-> 0, level_short |-> r.level_short,
     sinks |-> r.sinks]

\* add_http_file_handler(logger_loader=l): add_custom_handler for FILE.HTTP
\* (no level in kwargs) and then for FILE.HTTP_ERR (level="WARNING"), both
\* with filter=use_http_filter; io_ok[i]: create_dir and logger.add of the
\* i-th call succeed. An exception of the first call ends the function.
AddHttpFileHandler(l, io_ok) ==
    /\ handlers_count + 1 <= MaxIds
    /\ LET r1 == Added(Reg(l), config[l], l, "FILE.HTTP",
                       Kwargs(TRUE, "unset", "use_http_filter"), io_ok[1])
           r2 == IF r1.raised = "none"
                 THEN Added(r1, config[l], l, "FILE.HTTP_ERR",
                            Kwargs(TRUE, "WARNING", "use_http_filter"), io_ok[2])
                 ELSE r1
       IN /\ handlers' = r2.handlers
          /\ handlers_count' = r2.count
          /\ handlers_map' = [handlers_map EXCEPT ![l] = r2.map]
          /\ call' = Called("add_http_file_handler", l, NoneArg, "", r2.raised)
    /\ UNCHANGED notReg

\* dispatch(request, call_next) up to `await call_next(request)`: the debug
\* record, logged without bind, when use_debug_log is set
HttpRequest(use_debug_log) ==
    /\ http.pc = "idle"
    /\ LET r == Logged("DEBUG", <<>>)
       IN /\ http' = [pc |-> "call_next", use_debug_log |-> use_debug_log,
                      status_code |-> 0,
                      records |-> IF use_debug_log THEN <<r>> ELSE <<>>]
          /\ emitted' = IF use_debug_log THEN EmittedByHttp(r) ELSE emitted
    /\ UNCHANGED <<config, loggers, regVars, rotVars, concVars, raceVars, pathVars,
                   mergeVars, newVars>>

\* dispatch after call_next has returned a response with this status code:
\* the access record, logged with http_info bound and the level of the status
HttpResponse(status_code) ==
    /\ http.pc = "call_next"
    /\ LET r == Logged(LEVEL(status_code), HttpExtra(status_code))
       IN /\ http' = [http EXCEPT !.pc = "idle", !.status_code = status_code,
                                  !.records = Append(@, r)]
          /\ emitted' = EmittedByHttp(r)
    /\ UNCHANGED <<config, loggers, regVars, rotVars, concVars, raceVars, pathVars,
                   mergeVars, newVars>>

\* Two loaders with a configuration of any level, nothing added to the logger
HttpInit ==
    /\ zone = "fixed"
    /\ now = 0
    /\ phase = "new"
    /\ rotate_time = 0
    /\ size_limit = 0
    /\ dtime_limit = 0
    /\ fsize = 0
    /\ frecs = 0
    /\ arch = NoFile
    /\ last = NoCall
    /\ backup_count = 0
    /\ backups = <<>>
    /\ ConcIdle
    /\ RegIdle
    /\ \E lv \in Levels :
          config = [l \in Loaders |-> [DefaultConfig EXCEPT !.level = lv]]
    /\ loggers = FreshLoggers
    /\ emitted = NoEmit
    /\ RaceIdle
    /\ PathIdle
    /\ MergeIdle
    /\ NewIdle
    /\ HttpIdle

\* The http file handlers are added, the application logs, and the
\* middleware handles requests
HttpNext ==
    \/ \E io_ok \in {<<TRUE, TRUE>>, <<TRUE, FALSE>>, <<FALSE, TRUE>>} :
          AddHttpFileHandler("main", io_ok)
    \/ \E level \in {"INFO", "ERROR"} : Emit(level, <<>>)
    \/ \E use_debug_log \in BOOLEAN : HttpRequest(use_debug_log)
    \/ \E status_code \in StatusCodes : HttpResponse(status_code)

SpecHttp == HttpInit /\ [][HttpNext]_vars

\* The ids of the http file handlers that are in the logger
HttpId(name) ==
    IF name \in DOMAIN handlers_map["main"] THEN {handlers_map["main"][name]} ELSE {}

\* dispatch has just logged the access record of a request
Responded == http.pc = "call_next" /\ http'.pc = "idle"

\* The records of the request that carry http_info
AccessRecords(rs) == {i \in DOMAIN rs : "http_info" \in DOMAIN rs[i].extra}

\* One access record per handled request, with http_info and the level of
\* the status; FILE.HTTP_ERR writes it exactly when status >= 400; no http
\* file handler writes a record without http_info
AccessRecordAsClaimed ==
    /\ Responded =>
          LET rs == http'.records
              s == http'.status_code
          IN /\ Cardinality(AccessRecords(rs)) = 1
             /\ \A i \in AccessRecords(rs) :
                   /\ rs[i].extra.http_info.status_code = s
                   /\ rs[i].level = IF s < 200 THEN "DEBUG"
                                    ELSE IF s <= 299 THEN "SUCCESS"
                                    ELSE IF s <= 399 THEN "INFO"
                                    ELSE IF s <= 499 THEN "WARNING"
                                    ELSE "ERROR"
                   /\ \A id \in HttpId("FILE.HTTP_ERR") : id \in rs[i].sinks <=> s >= 400
             /\ \A i \in DOMAIN rs \ AccessRecords(rs) :
                   rs[i].sinks \cap (HttpId("FILE.HTTP") \cup HttpId("FILE.HTTP_ERR")) = {}
    /\ (emitted'.seq # emitted.seq /\ "http_info" \notin DOMAIN emitted'.extra) =>
          emitted'.sinks \cap (HttpId("FILE.HTTP") \cup HttpId("FILE.HTTP_ERR")) = {}

\* C26 as the claim states it: ..., and with the http file handlers added the
\* access record is written to FILE.HTTP for every status
C26_AccessRecordWrittenForEveryStatus ==
    [][/\ AccessRecordAsClaimed
       /\ Responded =>
             \A i \in AccessRecords(http'.records), id \in HttpId("FILE.HTTP") :
                id \in http'.records[i].sinks]_vars

\* C26, amended: HttpAccessLogMiddleware logs exactly one access record per
\* handled request, with http_info bound and with level DEBUG for status
\* < 200, SUCCESS for 200-299, INFO for 300-399, WARNING for 400-499 and
\* ERROR for status >= 500; with the http file handlers added, FILE.HTTP
\* writes that record exactly when its level is not below the level FILE.HTTP
\* was added with, which is the level of the loader's configuration, and
\* FILE.HTTP_ERR writes it exactly when status >= 400; a record without
\* http_info is written to neither.
C26_AccessRecordWrittenFromConfigLevel ==
    [][/\ AccessRecordAsClaimed
       /\ Responded =>
             \A i \in AccessRecords(http'.records), id \in HttpId("FILE.HTTP") :
                /\ handlers[id].level = config["main"].level
                /\ id \in http'.records[i].sinks
                   <=> LevelNo(http'.records[i].level) >= LevelNo(handlers[id].level)]_vars

\* A request with a 1xx response was handled with the debug record on and
\* both http file handlers added under the default level INFO: FILE.HTTP
\* wrote neither record
C26_Witness ==
    /\ http.pc = "idle"
    /\ Len(http.records) = 2
    /\ http.status_code = 100
    /\ config["main"].level = "INFO"
    /\ HttpId("FILE.HTTP") # {} /\ HttpId("FILE.HTTP_ERR") # {}
    /\ \A i \in 1..2 : http.records[i].sinks \cap HttpId("FILE.HTTP") = {}

====
